---- MODULE Spec2Model ----
(***************************************************************************)
(* A model of the AIMS backend's orbital-mechanics engine                  *)
(* (services/orbitalMechanics.ts) and of the handlers that call it.        *)
(*                                                                         *)
(* Numbers.  The engine computes in IEEE-754 doubles.  A double is held    *)
(* here as a record [c, v]: c = "fin" with v the value in thousandths      *)
(* (three decimals, rounded to nearest), c = "inf" with v = 1 or -1, or    *)
(* c = "nan".  The operators F... follow the IEEE rules for the special    *)
(* values (x/0, 0/0, Inf-Inf, Inf*0, sqrt of a negative, comparisons with  *)
(* NaN).  Where a quantity is held in another unit the definition says so. *)
(***************************************************************************)
EXTENDS Integers, Sequences, FiniteSets, TLC

\* ------------------------------------------------------------------------
\* Integer helpers
\* ------------------------------------------------------------------------

Abs(x) == IF x < 0 THEN -x ELSE x

Sgn(x) == IF x < 0 THEN -1 ELSE IF x > 0 THEN 1 ELSE 0

\* a / b rounded to the nearest integer (b # 0), as a double division rounds.
RoundDiv(a, b) == Sgn(a) * Sgn(b) * ((Abs(a) + Abs(b) \div 2) \div Abs(b))

RECURSIVE ISqrtIter(_, _, _)
ISqrtIter(n, lo, hi) ==
    IF lo >= hi THEN lo
    ELSE LET mid == (lo + hi + 1) \div 2
         IN  IF mid * mid <= n THEN ISqrtIter(n, mid, hi)
                               ELSE ISqrtIter(n, lo, mid - 1)

\* floor(sqrt(n)) for 0 <= n < 2^31
ISqrt(n) == ISqrtIter(n, 0, 46340)

\* ------------------------------------------------------------------------
\* IEEE-754 values
\* ------------------------------------------------------------------------

Fin(x) == [c |-> "fin", v |-> x]

NaN == [c |-> "nan", v |-> 0]

Inf(s) == [c |-> "inf", v |-> s]

IsNaN(a) == a.c = "nan"

IsFinite(a) == a.c = "fin"

FSign(a) == IF a.c = "nan" THEN 0 ELSE Sgn(a.v)

FNeg(a) == IF a.c = "nan" THEN NaN ELSE [c |-> a.c, v |-> -a.v]

FAbs(a) == IF a.c = "nan" THEN NaN ELSE [c |-> a.c, v |-> Abs(a.v)]

FAdd(a, b) ==
    IF a.c = "nan" \/ b.c = "nan" THEN NaN
    ELSE IF a.c = "inf" /\ b.c = "inf" THEN (IF a.v = b.v THEN a ELSE NaN)
    ELSE IF a.c = "inf" THEN a
    ELSE IF b.c = "inf" THEN b
    ELSE Fin(a.v + b.v)

FSub(a, b) == FAdd(a, FNeg(b))

\* a * b for two values in thousandths
FMul(a, b) ==
    IF a.c = "nan" \/ b.c = "nan" THEN NaN
    ELSE IF a.c = "inf" \/ b.c = "inf"
         THEN (IF FSign(a) * FSign(b) = 0 THEN NaN ELSE Inf(FSign(a) * FSign(b)))
    ELSE Fin(RoundDiv(a.v * b.v, 1000))

\* a / b for two values in thousandths.  The model has no negative zero:
\* x / 0 takes the sign of x.
FDiv(a, b) ==
    IF a.c = "nan" \/ b.c = "nan" THEN NaN
    ELSE IF a.c = "inf" /\ b.c = "inf" THEN NaN
    ELSE IF a.c = "inf" THEN Inf(a.v * (IF FSign(b) < 0 THEN -1 ELSE 1))
    ELSE IF b.c = "inf" THEN Fin(0)
    ELSE IF b.v = 0 THEN (IF a.v = 0 THEN NaN ELSE Inf(Sgn(a.v)))
    ELSE Fin(RoundDiv(a.v * 1000, b.v))

FSqrt(a) ==
    IF a.c = "nan" THEN NaN
    ELSE IF a.v < 0 THEN NaN
    ELSE IF a.c = "inf" THEN a
    ELSE Fin(ISqrt(a.v * 1000))

\* IEEE comparisons: every comparison with NaN is false.
FGt(a, b) ==
    /\ a.c # "nan" /\ b.c # "nan"
    /\ IF a.c = "inf" THEN a.v = 1 /\ ~(b.c = "inf" /\ b.v = 1)
       ELSE IF b.c = "inf" THEN b.v = -1
       ELSE a.v > b.v

FLt(a, b) == FGt(b, a)

FEq(a, b) == a.c # "nan" /\ b.c # "nan" /\ a = b

\* ------------------------------------------------------------------------
\* Math.* functions on thousandths
\* ------------------------------------------------------------------------

\* Math.PI in ten-thousandths
PI10 == 31416

PI == RoundDiv(PI10, 10)

HalfPi == RoundDiv(PI10, 20)

\* sin of x thousandths of a radian, in thousandths: the argument is reduced
\* to [-pi/2, pi/2] and the Taylor series summed to the x^9 term.
SinFix(x) ==
    LET Reduce(r0) == IF r0 > HalfPi THEN PI - r0
                      ELSE IF r0 < -HalfPi THEN -PI - r0 ELSE r0
        \* r (1 - r2/6 (1 - r2/20 (1 - r2/42 (1 - r2/72)))), r2 = r * r, the
        \* factors and r2 in ten-thousandths
        Horner(r, r2) ==
            RoundDiv(r * (10000 - RoundDiv(r2 * (10000 - RoundDiv(r2 *
                (10000 - RoundDiv(r2 * (10000 - RoundDiv(r2, 72)), 420000)),
                200000)), 60000)), 10000)
        Series(r) == Horner(r, RoundDiv(r * r, 100))
    IN  Series(Reduce(RoundDiv(((x * 10 + PI10) % (2 * PI10)) - PI10, 10)))

CosFix(x) == SinFix(x + HalfPi)

\* e^k in thousandths, k = 0..13
EPow == <<1000, 2718, 7389, 20086, 54598, 148413, 403429, 1096633, 2980958,
          8103084, 22026466, 59874142, 162754791, 442413392>>

RECURSIVE ExpTerms(_, _, _)
ExpTerms(r, n, term) ==
    IF n > 8 \/ term = 0 THEN 0
    ELSE term + ExpTerms(r, n + 1, RoundDiv(term * r, 1000 * (n + 1)))

\* exp of x thousandths, 0 <= x < 14000, in thousandths
ExpFix(x) ==
    LET Scale(k, frac) == IF k <= 6 THEN RoundDiv(EPow[k + 1] * frac, 1000)
                          ELSE RoundDiv(EPow[k + 1], 1000) * frac
    IN  Scale(x \div 1000, ExpTerms(x % 1000, 0, 1000))

\* exp(-y) for y >= 0 thousandths, in thousandths
ExpNegFix(y) == IF y >= 14000 THEN 0 ELSE RoundDiv(1000000, ExpFix(y))

\* The largest argument whose exponential the model's numbers hold; beyond
\* it Math.exp overflows to Infinity (a double does at 709.78).
MaxExpArg == 7600

\* atan of x thousandths, in thousandths of a radian
RECURSIVE AtanFix(_)
AtanFix(x) ==
    IF Abs(x) > 1000 THEN Sgn(x) * HalfPi - AtanFix(RoundDiv(1000000, x))
    ELSE LET \* tan(t / 2) from tan(t)
             Half(y) == RoundDiv(y * 1000, 1000 + ISqrt(1000000 + y * y))
             \* 4 z (1 - z2/3 + z2^2/5), z2 = z * z, for z = tan(t / 4)
             Series(z, z2) ==
                 RoundDiv(4 * z * (105000 - 35 * z2 + RoundDiv(21 * z2 * z2, 1000)),
                          105000)
             Quarter(z) == Series(z, RoundDiv(z * z, 1000))
         IN  Quarter(Half(Half(x)))

FSin(a) == IF a.c # "fin" THEN NaN ELSE Fin(SinFix(a.v))

FCos(a) == IF a.c # "fin" THEN NaN ELSE Fin(CosFix(a.v))

FExp(a) ==
    IF a.c = "nan" THEN NaN
    ELSE IF a.c = "inf" THEN (IF a.v = 1 THEN a ELSE Fin(0))
    ELSE IF a.v > MaxExpArg THEN Inf(1)
    ELSE IF a.v >= 0 THEN Fin(ExpFix(a.v))
    ELSE Fin(ExpNegFix(-a.v))

FAtan(a) ==
    IF a.c = "nan" THEN NaN
    ELSE IF a.c = "inf" THEN Fin(a.v * HalfPi)
    ELSE Fin(AtanFix(a.v))

\* Math.atan2(y, x) for finite or NaN arguments
FAtan2(y, x) ==
    IF y.c # "fin" \/ x.c # "fin" THEN NaN
    ELSE IF x.v > 0 THEN FAtan(FDiv(y, x))
    ELSE IF x.v < 0 THEN Fin(FAtan(FDiv(y, x)).v + (IF y.v >= 0 THEN PI ELSE -PI))
    ELSE Fin(Sgn(y.v) * HalfPi)

FTanh(a) ==
    IF a.c = "nan" THEN NaN
    ELSE IF a.c = "inf" THEN Fin(a.v * 1000)
    ELSE LET Ratio(t) == Fin(Sgn(a.v) * RoundDiv((1000 - t) * 1000, 1000 + t))
         IN  Ratio(ExpNegFix(2 * Abs(a.v)))

\* a * num / den for integers num, den (a change of unit, a division by a
\* whole number)
FScale(a, num, den) ==
    IF a.c = "fin" THEN Fin(RoundDiv(a.v * num, den))
    ELSE IF a.c = "inf" THEN Inf(a.v * Sgn(num) * Sgn(den))
    ELSE NaN

\* ------------------------------------------------------------------------
\* Constants (services/orbitalMechanics.ts, Constants)
\* ------------------------------------------------------------------------

\* Constants.AU, the astronomical unit in km (149597870.7, rounded)
AU == 149597871

\* Constants.G * Constants.SOLAR_MASS = 1.32752e20 m^3/s^2, per cubed
\* (AU * 1000 m): 3.965e-14 s^-2, held in units of 1e-14 s^-2.
G_SOLAR_MASS == Fin(3965)

\* Constants.GM_SUN = 1.327e20, held in units of 1e20
GM_SUN == Fin(1327)

\* Constants.GM_SUN per cubed (AU * 1000 m): 3.964e-14 s^-2, in 1e-14 s^-2
GM_SUN_AU3 == Fin(3964)

\* Constants.YEAR_SECONDS = 365.25 * 86400
YEAR_SECONDS == 31557600

\* tolerance = 1e-8 of both Newton-Raphson loops.  The model's numbers have
\* three decimals, so the tolerance is the grain of the iterate, 0.001.
tolerance == Fin(1)

\* ------------------------------------------------------------------------
\* The orbital-element registry.  a in AU, e: thousandths; i, omega, Omega:
\* tenths of a degree; epoch: Julian date in half days.
\* ------------------------------------------------------------------------

Elements(a, e, i, omega, Omega, epoch) ==
    [a |-> a, e |-> e, i |-> i, omega |-> omega, Omega |-> Omega,
     M |-> 0, epoch |-> epoch]

\* The elements of 3I/ATLAS with the sign of the semi-major axis dropped
ATLAS_3I_ELEMENTS_UNSIGNED == Elements(Fin(2100), Fin(6141), 1751, 3104, 872, 4920293)

ATLAS_3I_ELEMENTS == Elements(Fin(-2100), Fin(6141), 1751, 3104, 872, 4920293)

PLANETARY_ELEMENTS ==
    [Mercury |-> Elements(Fin(387), Fin(206), 70, 291, 483, 4903090),
     Venus   |-> Elements(Fin(723), Fin(7), 34, 549, 767, 4903090),
     Earth   |-> Elements(Fin(1000), Fin(17), 0, 1142, 0, 4903090),
     Mars    |-> Elements(Fin(1524), Fin(93), 19, 2865, 496, 4903090),
     Jupiter |-> Elements(Fin(5204), Fin(49), 13, 2739, 1005, 4903090)]

\* ------------------------------------------------------------------------
\* OrbitalMechanics
\* ------------------------------------------------------------------------

\* degrees (tenths) to radians (thousandths)
degToRad(degrees) == Fin(RoundDiv(degrees * PI10, 18000))

\* Mean motion in units of 1e-7 rad/s.  auInMeters is held in AU * 1000 m,
\* the unit G_SOLAR_MASS is given in.
meanMotion(semiMajorAxis, GMcentral) ==
    LET auInMeters == semiMajorAxis
    IN  FSqrt(FDiv(GMcentral, FMul(FMul(auInMeters, auInMeters), auInMeters)))

\* The bound on the Newton-Raphson iterations the model follows; the loops
\* of the source have none.
MaxNewton == 130

\* One pass of the loop body of solveKeplerEquation: deltaE = f / df
KeplerDelta(E, meanAnomaly, eccentricity) ==
    LET f  == FSub(FSub(E, FMul(eccentricity, FSin(E))), meanAnomaly)
        df == FSub(Fin(1000), FMul(eccentricity, FCos(E)))
    IN  FDiv(f, df)

\* while (Math.abs(deltaE) > tolerance) { ... }: the loop's only exit is
\* its condition.  running = TRUE: the loop is still running after MaxNewton
\* passes.
RECURSIVE KeplerLoop(_, _, _, _, _)
KeplerLoop(E, deltaE, meanAnomaly, eccentricity, n) ==
    IF ~FGt(FAbs(deltaE), tolerance)
    THEN [value |-> E, iterations |-> n, running |-> FALSE]
    ELSE IF n >= MaxNewton
    THEN [value |-> E, iterations |-> n, running |-> TRUE]
    ELSE LET Pass(d) == KeplerLoop(FSub(E, d), d, meanAnomaly, eccentricity, n + 1)
         IN  Pass(KeplerDelta(E, meanAnomaly, eccentricity))

solveKeplerEquation(meanAnomaly, eccentricity) ==
    KeplerLoop(meanAnomaly, Fin(1000), meanAnomaly, eccentricity, 0)

\* ------------------------------------------------------------------------
\* solveKeplerEquation below the grain of its tolerance.  A number is five
\* limbs <<d0, d1, d2, d3, d4>> standing for
\*     d0 + d1 / 10^4 + d2 / 10^8 + d3 / 10^12 + d4 / 10^16
\* with d1 .. d4 in 0 .. 9999 and d0 any integer (-0.5 is <<-1, 5000, 0, 0,
\* 0>>): sixteen decimals, the precision of a double near 1.
\* ------------------------------------------------------------------------

Limb == 100 * 100

\* Carries from limb i up to the first one
RECURSIVE CarryFrom(_, _, _)
CarryFrom(t, i, c) ==
    IF i = 1 THEN <<t[1] + c>>
    ELSE CarryFrom(t, i - 1, (t[i] + c) \div Limb) \o <<(t[i] + c) % Limb>>

LAdd(x, y) == CarryFrom([i \in 1..5 |-> x[i] + y[i]], 5, 0)

LSub(x, y) == CarryFrom([i \in 1..5 |-> x[i] - y[i]], 5, 0)

LNeg(x) == CarryFrom([i \in 1..5 |-> -x[i]], 5, 0)

\* Math.abs
LAbs(x) == IF x[1] < 0 THEN LNeg(x) ELSE x

\* x > y
LGt(x, y) == LSub(y, x)[1] < 0

\* n * x for a small integer n
LScale(x, n) == CarryFrom([i \in 1..5 |-> n * x[i]], 5, 0)

\* x * y, rounded to sixteen decimals
LMul(x, y) ==
    LET Term(i, k) ==
            IF k + 1 - i >= 1 /\ k + 1 - i <= 5 THEN x[i] * y[k + 1 - i] ELSE 0
        Column(k) == Term(1, k) + Term(2, k) + Term(3, k) + Term(4, k) + Term(5, k)
        Rounded(c) == <<c[1], c[2], c[3], c[4], c[5]>>
    IN  Rounded(CarryFrom([k \in 1..6 |->
                               Column(k) + (IF k = 6 THEN Limb \div 2 ELSE 0)], 6, 0))

\* x / k for an integer k in 1 .. 1000, limb by limb
RECURSIVE DivFrom(_, _, _, _)
DivFrom(x, k, i, r) ==
    IF i > 5 THEN <<>>
    ELSE <<(r * Limb + x[i]) \div k>> \o DivFrom(x, k, i + 1, (r * Limb + x[i]) % k)

LDivSmall(x, k) == DivFrom(x, k, 1, 0)

LZero == <<0, 0, 0, 0, 0>>

LOne == <<1, 0, 0, 0, 0>>

\* Math.PI / 2, Math.PI and 2 * Math.PI
LHalfPi == <<1, 5707, 9632, 6794, 8966>>

LPi == <<3, 1415, 9265, 3589, 7932>>

LTwoPi == <<6, 2831, 8530, 7179, 5865>>

\* The one element of a set.  Only({F(v) : v \in {expr}}) has expr computed
\* before F is entered, which keeps long chains of operators shallow.
Only(S) == CHOOSE r \in S : TRUE

\* (2k)(2k + 1) for k = 11 .. 1, the divisors of the sine series
SineDivisors == <<506, 420, 342, 272, 210, 156, 110, 72, 42, 20, 6>>

\* 1 - y2/6 (1 - y2/20 (1 - y2/42 ( ... (1 - y2/506)))), innermost first
RECURSIVE SeriesFrom(_, _, _)
SeriesFrom(y2, acc, i) ==
    IF i > 11 THEN acc
    ELSE Only({SeriesFrom(y2, next, i + 1) :
                   next \in {LSub(LOne, LDivSmall(LMul(y2, acc), SineDivisors[i]))}})

\* Math.sin(x): whole turns are taken off, the rest is folded into
\* [-pi/2, pi/2], then the series x (1 - x^2/6 (1 - x^2/20 (1 - ...))) up to
\* the term x^23 / 23!, whose remainder is below 1e-20
LSin(x) ==
    LET Folded(y) == Only({LMul(y, SeriesFrom(y2, LOne, 1)) : y2 \in {LMul(y, y)}})
        Quadrant(r) ==
            IF LGt(r, LHalfPi) THEN LSub(LPi, r)
            ELSE IF LGt(LNeg(LHalfPi), r) THEN LSub(LNeg(LPi), r)
            ELSE r
        Turns(z) == (z[1] * Limb + z[2] + 31416) \div 62832
    IN  Only({Folded(Quadrant(r)) : r \in {LSub(x, LScale(LTwoPi, Turns(x)))}})

\* Math.cos(x)
LCos(x) == LSin(LAdd(x, LHalfPi))

\* Eight decimals of r / d, for 0 <= r < d <= 2 * 10^8
RECURSIVE Digits8(_, _, _, _)
Digits8(r, d, acc, k) ==
    IF k = 0 THEN acc
    ELSE Digits8((r * 10) % d, d, acc * 10 + (r * 10) \div d, k - 1)

\* f / df for 0.01 <= df < 2: a first quotient 1 / df from the leading eight
\* decimals of df, made exact to sixteen decimals by two passes of
\* r (2 - df r), then f r
LDiv(f, df) ==
    LET First(d8, whole) ==
            <<whole \div d8, Digits8(whole % d8, d8, 0, 8) \div Limb,
              Digits8(whole % d8, d8, 0, 8) % Limb, 0, 0>>
        Refined(r) == LMul(r, LSub(<<2, 0, 0, 0, 0>>, LMul(df, r)))
    IN  Only({LMul(f, Refined(r)) :
                  r \in {Refined(First(df[1] * Limb * Limb + df[2] * Limb + df[3],
                                       Limb * Limb))}})

\* const f = E - e sin E - M
KeplerResidual(E, meanAnomaly, eccentricity) ==
    LSub(LSub(E, LMul(eccentricity, LSin(E))), meanAnomaly)

\* deltaE = f / df of one pass of solveKeplerEquation
KeplerDeltaE(E, meanAnomaly, eccentricity) ==
    Only({LDiv(f, df) : f \in {KeplerResidual(E, meanAnomaly, eccentricity)},
                        df \in {LSub(LOne, LMul(eccentricity, LCos(E)))}})

\* tolerance = 1e-8, the default of solveKeplerEquation
defaultTolerance == <<0, 0, 1, 0, 0>>

\* let deltaE = 0: the loop is never entered
initialDeltaEZero == LZero

\* let deltaE = 1
initialDeltaE == LOne

\* One pass of the loop body of solveHyperbolicKepler: deltaH = f / df with
\* f = e sinh(H) - H - M and df = e cosh(H) - 1.  A double holds sinh(H) up
\* to |H| = 710; the model's integers hold it up to |H| = 6.2.  Beyond, f and
\* df are both taken times 2 exp(-|H|), which leaves their quotient as it
\* is: with x = exp(-|H|) and s the sign of H,
\*   f * 2x = s e (1 - x^2) - 2 x (H + M),   df * 2x = e (1 + x^2) - 2 x.
\* Above |H| = 710 the double sinh and cosh are infinite and f / df is NaN.
HyperbolicDelta(H, M, e) ==
    LET Direct(ep, en) ==
            FDiv(FSub(FSub(FMul(e, Fin(Sgn(H.v) * RoundDiv(ep - en, 2))), H), M),
                 FSub(FMul(e, Fin(RoundDiv(ep + en, 2))), Fin(1000)))
        Quotient(x, ex2) ==
            FDiv(Fin(Sgn(H.v) * (e.v - ex2) - RoundDiv(2 * x * (H.v + M.v), 1000)),
                 Fin(e.v + ex2 - 2 * x))
        Scaled(x) == Quotient(x, RoundDiv(e.v * x * x, 1000000))
    IN  IF H.c # "fin" \/ M.c # "fin" \/ e.c # "fin" THEN NaN
        ELSE IF Abs(H.v) > 710000 THEN NaN
        ELSE IF Abs(H.v) <= 6200
        THEN Direct(ExpFix(Abs(H.v)), ExpNegFix(Abs(H.v)))
        ELSE Scaled(ExpNegFix(Abs(H.v)))

RECURSIVE HyperbolicLoop(_, _, _, _, _)
HyperbolicLoop(H, deltaH, M, e, n) ==
    IF ~FGt(FAbs(deltaH), tolerance)
    THEN [value |-> H, iterations |-> n, running |-> FALSE]
    ELSE IF n >= MaxNewton
    THEN [value |-> H, iterations |-> n, running |-> TRUE]
    ELSE LET Pass(d) == HyperbolicLoop(FSub(H, d), d, M, e, n + 1)
         IN  Pass(HyperbolicDelta(H, M, e))

solveHyperbolicKepler(M, e) == HyperbolicLoop(M, Fin(1000), M, e, 0)

calculateTrueAnomaly(E, e) ==
    FScale(FAtan2(FMul(FSqrt(FAdd(Fin(1000), e)), FSin(FScale(E, 1, 2))),
                  FMul(FSqrt(FSub(Fin(1000), e)), FCos(FScale(E, 1, 2)))),
           2, 1)

calculateTrueAnomalyHyperbolic(H, e) ==
    FScale(FAtan(FMul(FSqrt(FDiv(FAdd(e, Fin(1000)), FSub(e, Fin(1000)))),
                      FTanh(FScale(H, 1, 2)))),
           2, 1)

\* Position in the units of a (AU); velocity in units of 1e10, GM_SUN being
\* multiplied by a in AU as the source does.
orbitalStateVectors(elements, nu) ==
    LET a == elements.a
        e == elements.e
        Vectors(r, h, cosNu, sinNu) ==
            [position |-> <<FMul(r, cosNu), FMul(r, sinNu)>>,
             velocity |-> <<FDiv(FMul(FNeg(h), sinNu), r),
                            FDiv(FMul(h, FAdd(e, cosNu)), r)>>]
        \* q = |a| (1 - e^2): r = q / (1 + e cos(nu)), h = sqrt(GM_SUN q)
        Radius(q, cosNu, sinNu) ==
            Vectors(FDiv(q, FAdd(Fin(1000), FMul(e, cosNu))),
                    FSqrt(FMul(GM_SUN, q)), cosNu, sinNu)
    IN  Radius(FMul(FAbs(a), FSub(Fin(1000), FMul(e, e))), FCos(nu), FSin(nu))

transformToEcliptic(x, y, z, elements) ==
    LET Rotate(cosOmega, sinOmega, cosI, sinI, cosCapitalOmega, sinCapitalOmega) ==
            <<FAdd(FMul(FSub(FMul(cosCapitalOmega, cosOmega),
                             FMul(FMul(sinCapitalOmega, sinOmega), cosI)), x),
                   FMul(FSub(FMul(FNeg(cosCapitalOmega), sinOmega),
                             FMul(FMul(sinCapitalOmega, cosOmega), cosI)), y)),
              FAdd(FMul(FAdd(FMul(sinCapitalOmega, cosOmega),
                             FMul(FMul(cosCapitalOmega, sinOmega), cosI)), x),
                   FMul(FAdd(FMul(FNeg(sinCapitalOmega), sinOmega),
                             FMul(FMul(cosCapitalOmega, cosOmega), cosI)), y)),
              FAdd(FMul(FMul(sinOmega, sinI), x), FMul(FMul(cosOmega, sinI), y))>>
    IN  Rotate(FCos(degToRad(elements.omega)), FSin(degToRad(elements.omega)),
               FCos(degToRad(elements.i)), FSin(degToRad(elements.i)),
               FCos(degToRad(elements.Omega)), FSin(degToRad(elements.Omega)))

\* Constants.DAY_SECONDS
DAY_SECONDS == 86400

\* X / Constants.AU, the "Convert to AU" of calculatePositionAtTime: X is in
\* thousandths and the quotient, of the order of 1e-8, is held in units of
\* 1e-12 (X * 1e-3 / 1.496e8 = X * 1e4 / 1496 * 1e-12).
DivideByAU(X) == FScale(X, 10000, RoundDiv(AU, 100000))

\* The entry of calculatePositionAtTime: M = n * dt.  time is a Julian date
\* in half days, dt is held in units of 1e7 s and the mean motion in 1e-7
\* rad/s, so that M is in radians.
MeanAnomalyAt(elements, time) ==
    FMul(IF FLt(elements.e, Fin(1000))
         THEN meanMotion(FAbs(elements.a), G_SOLAR_MASS)
         ELSE meanMotion(FAbs(elements.a), GM_SUN_AU3),
         FScale(FSub(time, Fin(elements.epoch)), DAY_SECONDS \div 200, 100))

\* The rest of calculatePositionAtTime once the solver has returned E (or
\* H): true anomaly, state vectors in the orbital plane, rotation to the
\* ecliptic, conversion of the units.
StateVectorAt(elements, E) ==
    LET Convert(P, V) ==
            [position |-> <<DivideByAU(P[1]), DivideByAU(P[2]), DivideByAU(P[3])>>,
             velocity |-> <<FScale(V[1], 1, 1000), FScale(V[2], 1, 1000),
                            FScale(V[3], 1, 1000)>>]
        Transform(stateVectors) ==
            Convert(transformToEcliptic(stateVectors.position[1],
                                        stateVectors.position[2], Fin(0), elements),
                    transformToEcliptic(stateVectors.velocity[1],
                                        stateVectors.velocity[2], Fin(0), elements))
    IN  Transform(orbitalStateVectors(elements,
            IF FLt(elements.e, Fin(1000))
            THEN calculateTrueAnomaly(E, elements.e)
            ELSE calculateTrueAnomalyHyperbolic(E, elements.e)))

\* calculatePositionAtTime(elements, time) as one evaluation.  The function
\* has no throw statement: it returns whatever the arithmetic yields, unless
\* a solver loop is still running after MaxNewton passes (returned = FALSE).
calculatePositionAtTime(elements, time) ==
    LET Return(M, sol) ==
            [returned    |-> ~sol.running,
             thrown      |-> "none",
             meanAnomaly |-> M,
             iterations  |-> sol.iterations,
             position    |-> IF sol.running THEN <<>>
                             ELSE StateVectorAt(elements, sol.value).position,
             velocity    |-> IF sol.running THEN <<>>
                             ELSE StateVectorAt(elements, sol.value).velocity]
        Solve(M) == Return(M, IF FLt(elements.e, Fin(1000))
                              THEN solveKeplerEquation(M, elements.e)
                              ELSE solveHyperbolicKepler(M, elements.e))
    IN  Solve(MeanAnomalyAt(elements, time))

\* ------------------------------------------------------------------------
\* Trajectory estimation
\* ------------------------------------------------------------------------

\* const steps = 100
steps == 100

\* JavaScript property lookup table[key] on an object literal: an own
\* property, else a member inherited from Object.prototype (a function or
\* an object), else undefined.
ObjectPrototypeKeys ==
    {"constructor", "toString", "valueOf", "hasOwnProperty", "__proto__"}

Lookup(table, key) ==
    IF key \in DOMAIN table THEN [kind |-> "own", value |-> table[key]]
    ELSE IF key \in ObjectPrototypeKeys THEN [kind |-> "inherited", value |-> 0]
    ELSE [kind |-> "undefined", value |-> 0]

\* propulsionEfficiency: isp in s (the thrust is never read)
propulsionEfficiency == [chemical |-> 450, ion |-> 3000, nuclear |-> 900]

\* propulsionMultiplier, in hundredths
propulsionMultiplier == [chemical |-> 90, ion |-> 95, nuclear |-> 85]

\* x * Constants.AU * 1000: thousandths of an AU to metres, held in units of
\* 1e11 m (AU * 1000 = 1.496e11)
ToMeters(x) == FScale(x, RoundDiv(AU, 100000), 1000)

\* x / Constants.AU / 1000: back to AU
ToAU(x) == FScale(x, 1000, RoundDiv(AU, 100000))

Magnitude(r) ==
    FSqrt(FAdd(FAdd(FMul(r[1], r[1]), FMul(r[2], r[2])), FMul(r[3], r[3])))

\* calculateDeltaV returning the burn at departure alone
calculateDeltaVDeparture(r1, r2, timeOfFlight) ==
    LET Burn(v1, vCirc1) == FScale(FAbs(FSub(v1, vCirc1)), 31623, 1000)
        Speeds(r1Mag, a) ==
            Burn(FSqrt(FMul(GM_SUN, FSub(FDiv(Fin(2000), r1Mag), FDiv(Fin(1000), a)))),
                 FSqrt(FDiv(GM_SUN, r1Mag)))
        Transfer(r1Mag, r2Mag) ==
            Speeds(r1Mag, FScale(FAdd(r1Mag, r2Mag), 1, 2))
    IN  Transfer(Magnitude(r1), Magnitude(r2))

\* calculateDeltaV: radii in units of 1e11 m, GM_SUN in 1e20, so the speeds
\* under the square roots are in units of sqrt(1e9) = 31622.8 m/s; the sum
\* is returned in m/s.  timeOfFlight is not read.
calculateDeltaV(r1, r2, timeOfFlight) ==
    LET Sum(v1, v2, vCirc1, vCirc2) ==
            FScale(FAdd(FAbs(FSub(v1, vCirc1)), FAbs(FSub(v2, vCirc2))), 31623, 1000)
        Speeds(r1Mag, r2Mag, a) ==
            Sum(FSqrt(FMul(GM_SUN, FSub(FDiv(Fin(2000), r1Mag), FDiv(Fin(1000), a)))),
                FSqrt(FMul(GM_SUN, FSub(FDiv(Fin(2000), r2Mag), FDiv(Fin(1000), a)))),
                FSqrt(FDiv(GM_SUN, r1Mag)),
                FSqrt(FDiv(GM_SUN, r2Mag)))
        Transfer(r1Mag, r2Mag) ==
            Speeds(r1Mag, r2Mag, FScale(FAdd(r1Mag, r2Mag), 1, 2))
    IN  Transfer(Magnitude(r1), Magnitude(r2))

\* calculateFuelMass: deltaV and ve in m/s, isp in s (NaN for undefined),
\* dryMass and the result in kg
calculateFuelMass(deltaV, isp, dryMass) ==
    LET ve        == FScale(isp, 981, 100)
        massRatio == FExp(FDiv(deltaV, ve))
    IN  FMul(Fin(dryMass), FSub(massRatio, Fin(1000)))

\* baseProbability *= num / 100 on a probability held in units of 1e-8,
\* where every product of the function's factors is exact
TimesHundredths(p, num) == IF p.c # "fin" THEN p ELSE Fin((p.v \div 100) * num)

\* A factor of calculateInterceptProbability in hundredths: the if / else if
\* on deltaV (m/s).  A comparison with NaN is false.
deltaVFactorSwapped(deltaV) ==
    IF FGt(deltaV, Fin(15000)) THEN 85
    ELSE IF FGt(deltaV, Fin(10000)) THEN 70
    ELSE 100

deltaVFactor(deltaV) ==
    IF FGt(deltaV, Fin(15000)) THEN 70
    ELSE IF FGt(deltaV, Fin(10000)) THEN 85
    ELSE 100

\* The if / else if on flightTimeYears = timeOfFlight / YEAR_SECONDS,
\* compared exactly: flightTimeYears > k iff timeOfFlight > k * YEAR_SECONDS.
flightTimeFactorInclusive(timeOfFlight) ==
    IF timeOfFlight >= 2 * YEAR_SECONDS THEN 80
    ELSE IF timeOfFlight >= YEAR_SECONDS THEN 90
    ELSE 100

flightTimeFactor(timeOfFlight) ==
    IF timeOfFlight > 2 * YEAR_SECONDS THEN 80
    ELSE IF timeOfFlight > YEAR_SECONDS THEN 90
    ELSE 100

\* calculateInterceptProbability, in units of 1e-8.  An unknown propulsion
\* type makes propulsionMultiplier[type] undefined or an inherited member,
\* and the product NaN; Math.min and Math.max return NaN for NaN.
calculateInterceptProbability(deltaV, timeOfFlight, propulsionType) ==
    LET base == Fin(85000000)
        p1 == TimesHundredths(base, deltaVFactor(deltaV))
        p2 == TimesHundredths(p1, flightTimeFactor(timeOfFlight))
        m  == Lookup(propulsionMultiplier, propulsionType)
        p3 == IF m.kind = "own" THEN TimesHundredths(p2, m.value) ELSE NaN
    IN  IF p3.c = "nan" THEN NaN
        ELSE IF FGt(p3, Fin(99000000)) THEN Fin(99000000)
        ELSE IF FLt(p3, Fin(10000000)) THEN Fin(10000000)
        ELSE p3

\* Date.now() + t * timeOfFlight * 1000 for t = i / steps.  A time in ms
\* is held as whole seconds and ms: a year in ms is beyond the model's
\* integers.  now is the reading of Date.now(), in ms.
StampAt(now, i, timeOfFlight) ==
    LET whole == i * (timeOfFlight \div steps)
        part  == i * (timeOfFlight % steps)       \* hundredths of a second
        ms    == now + (part % steps) * 10
    IN  [s |-> whole + part \div steps + ms \div 1000, ms |-> ms % 1000]

StampLess(a, b) == a.s < b.s \/ (a.s = b.s /\ a.ms < b.ms)

\* for (let i = 0; i < steps; i++)
LoopIndicesExclusive == 0 .. (steps - 1)

\* for (let i = 0; i <= steps; i++)
LoopIndices == 0 .. steps

\* r1[k] + t * (r2[k] - r1[k])
InterpolateFromOrigin(r1k, r2k, t) == FMul(t, r2k)

Interpolate(r1k, r2k, t) == FAdd(r1k, FMul(t, FSub(r2k, r1k)))

\* The body of the loop for index i; now is what Date.now() returns there.
TrajectoryPoint(i, now, r1, r2, timeOfFlight, fuelMass) ==
    LET t == Fin(10 * i)
        position == [k \in 1..3 |-> Interpolate(r1[k], r2[k], t)]
        velocity == [k \in 1..3 |->
                        FDiv(FScale(FSub(r2[k], r1[k]), 100, 1),
                             Fin(timeOfFlight \div 1000))]
    IN  [time         |-> StampAt(now, i, timeOfFlight),
         position     |-> [k \in 1..3 |-> ToAU(position[k])],
         velocity     |-> velocity,
         fuelMass     |-> FMul(fuelMass, FSub(Fin(1000), t)),
         acceleration |-> <<Fin(0), Fin(0), Fin(0)>>]

NoTrajectory ==
    [points |-> <<>>, totalDeltaV |-> NaN, totalFuelUsed |-> NaN,
     flightTime |-> 0, interceptProbability |-> NaN]

\* calculateInterceptTrajectory.  now[i] is the reading of Date.now() in
\* pass i of the loop.  The try block rethrows what it catches; the one
\* throw is the TypeError of propulsion.isp on an undefined propulsion.
calculateInterceptTrajectory(startPosition, targetPosition, timeOfFlight, propulsionType, now) ==
    LET Return(r1, r2, totalDeltaV, fuelMass) ==
            [outcome |-> "returned", error |-> "none",
             value |-> [points |-> [k \in 1..Cardinality(LoopIndices) |->
                                       TrajectoryPoint(k - 1, now[k - 1], r1, r2,
                                                       timeOfFlight, fuelMass)],
                        totalDeltaV |-> totalDeltaV,
                        totalFuelUsed |-> fuelMass,
                        flightTime |-> timeOfFlight,
                        interceptProbability |->
                            calculateInterceptProbability(totalDeltaV, timeOfFlight,
                                                          propulsionType)]]
        Fuel(r1, r2, propulsion, totalDeltaV) ==
            IF propulsion.kind = "undefined"
            THEN [outcome |-> "thrown", error |-> "TypeError", value |-> NoTrajectory]
            ELSE Return(r1, r2, totalDeltaV,
                        calculateFuelMass(totalDeltaV,
                            IF propulsion.kind = "own" THEN Fin(propulsion.value)
                            ELSE NaN,
                            1000))
        DeltaV(r1, r2) ==
            Fuel(r1, r2, Lookup(propulsionEfficiency, propulsionType),
                 calculateDeltaV(r1, r2, timeOfFlight))
    IN  DeltaV([k \in 1..3 |-> ToMeters(startPosition[k])],
               [k \in 1..3 |-> ToMeters(targetPosition[k])])

\* The module-level tables of services/orbitalMechanics.ts as they are after
\* load.  They are objects every importer shares by reference.
Constants ==
    [AU |-> AU, GM_SUN |-> GM_SUN, DAY_SECONDS |-> DAY_SECONDS,
     YEAR_SECONDS |-> YEAR_SECONDS]

Tables ==
    [Constants |-> Constants,
     ATLAS_3I_ELEMENTS |-> ATLAS_3I_ELEMENTS,
     PLANETARY_ELEMENTS |-> PLANETARY_ELEMENTS]

\* time / 1000 / DAY_SECONDS + 2440587.5: a Unix time held in days
\* (thousandths) to a Julian date in half days
JulianTime(unixDays) ==
    IF unixDays.c # "fin" THEN unixDays
    ELSE Fin(RoundDiv(unixDays.v, 500) + 4881175)

\* The body of getCurrentCelestialPositions without the entry of 3I/ATLAS
CurrentCelestialPositionsPlanetsOnly(tb, unixDays) ==
    [name \in DOMAIN tb.PLANETARY_ELEMENTS |->
        calculatePositionAtTime(tb.PLANETARY_ELEMENTS[name],
                                JulianTime(unixDays)).position]

\* The body of getCurrentCelestialPositions, reading the tables as they are
\* when it runs: positions['3I/ATLAS'] first, then one entry per entry of
\* Object.entries(PLANETARY_ELEMENTS), a later write to a key replacing an
\* earlier one.
CurrentCelestialPositions(tb, unixDays) ==
    LET atlasState ==
            calculatePositionAtTime(tb.ATLAS_3I_ELEMENTS, JulianTime(unixDays))
        planetState(name) ==
            calculatePositionAtTime(tb.PLANETARY_ELEMENTS[name], JulianTime(unixDays))
    IN  [name \in {"3I/ATLAS"} \cup DOMAIN tb.PLANETARY_ELEMENTS |->
            IF name \in DOMAIN tb.PLANETARY_ELEMENTS
            THEN planetState(name).position
            ELSE atlasState.position]

\* getCurrentCelestialPositions(time): time is a Unix time, held in days;
\* julianTime = time / 1000 / DAY_SECONDS + 2440587.5 is in half days.
getCurrentCelestialPositions(unixDays) == CurrentCelestialPositions(Tables, unixDays)

\* A position of the engine (units of 1e-12) as an argument of
\* calculateInterceptTrajectory (thousandths)
AsTrajectoryPosition(p) == [k \in 1..3 |-> FScale(p[k], 1, 1000000000)]

\* ------------------------------------------------------------------------
\* State
\* ------------------------------------------------------------------------

VARIABLES
    \* one call of calculatePositionAtTime, pass by pass of its solver loop
    pc,            \* "idle" | "solving" | "returned"
    elements,      \* the OrbitalElements of the call
    time,          \* its Julian date, in half days
    meanAnomaly,   \* M = n * dt
    anomaly,       \* the iterate E (or H) of the solver loop
    deltaE,        \* deltaE (or deltaH)
    iterations,    \* passes of the loop body made so far
    stateVector,   \* the value returned, or NoResult
    \* one call of calculateInterceptTrajectory, and the call before it
    clock,         \* what Date.now() returns, in ms after the start
    mission,       \* the arguments of the call, or NoMission
    outcome,       \* "none" | "returned" | "thrown" | "unreached"
    trajectory,    \* the InterceptorTrajectory returned, or NoTrajectory
    previous,      \* what the call before returned for the same arguments
    emitted,       \* the events the socket handler emitted to its client
    \* one call of calculateInterceptProbability, and the call before it
    estimate,      \* [deltaV, timeOfFlight, propulsionType, probability]
    estimateBefore,
    \* the engine's tables and the calls of getCurrentCelestialPositions
    tables,        \* Constants, ATLAS_3I_ELEMENTS, PLANETARY_ELEMENTS as they are
    caller,        \* the call site of the last call, or "none"
    asked,         \* its argument (a Unix time)
    currentPositions, \* the map it returned
    answers,       \* for each time asked so far: the map returned first,
                   \* and whether the time was asked again
    \* one call of calculateDeltaV, and the call before it
    deltaVCall,    \* [made, r1, r2, timeOfFlight, result]
    deltaVBefore,
    \* routes/celestial.ts
    now,             \* what Date.now() returns, in minutes after the start
    planetaryCache,  \* cacheKey -> [data, timestamp]
    atlasCache,      \* cacheKey -> [position, timestamp]
    calculated,      \* what getCurrentCelestialPositions returns for the
                     \* times asked (it keeps no state: computed once)
    request,         \* the last request, with the caches as it found them
    response,        \* the body of the answer to it
    \* routes/simulation.ts
    simulations,         \* id -> SimulationState (isRunning, elapsedTime)
    simulationIntervals, \* the ids that have an interval timer
    ticked,              \* id -> the 'simulation-tick' events emitted for it
    answer,              \* the answer to the request this step handled, or
                         \* NoAnswer when the step was a timer
    \* one call of solveKeplerEquation with sixteen decimals, pass by pass
    newton,              \* [pc, M, e, E, deltaE, iterations]
    \* sockets/socketHandlers.ts
    connection,             \* socket -> "none" | "connected" | "disconnected"
    connectedClients,       \* the socket ids of the map connectedClients
    positionSubscribers,    \* socket -> the Set of its connection callback
    positionUpdateInterval, \* socket -> the handle held there, or NoHandle
    updateIntervals,        \* socket -> the handles its 'subscribe-positions'
                            \* handlers made, each with a disconnect listener
    timers,                 \* handle -> [socket, seconds] of the active
                            \* setInterval timers
    handled,                \* the last step: [by, socket, computed, emits]
    \* routes/mission.ts
    calculation,            \* the last POST /calculate: what the trajectory
                            \* held and the answer [status, warnings]
    \* fetchPlanetaryPosition, call by call, with its await
    inFlight,               \* the calls that wait for axios.get: [n, name, time]
    settled                 \* the call that returned last: [how, key, at,
                            \* stored], stored being the timestamp of the
                            \* cache entry it read or replaced

orbitVars == <<pc, elements, time, meanAnomaly, anomaly, deltaE, iterations,
               stateVector>>

trajectoryVars == <<clock, mission, outcome, trajectory, previous, emitted>>

probabilityVars == <<estimate, estimateBefore>>

engineVars == <<tables, caller, asked, currentPositions, answers>>

deltaVVars == <<deltaVCall, deltaVBefore>>

celestialVars == <<now, planetaryCache, atlasCache, calculated, request, response>>

simulationVars == <<simulations, simulationIntervals, ticked, answer>>

keplerVars == <<newton>>

missionVars == <<calculation>>

fetchVars == <<inFlight, settled>>

socketVars == <<connection, connectedClients, positionSubscribers,
                positionUpdateInterval, updateIntervals, timers, handled>>

serverVars == <<fetchVars, missionVars, socketVars, keplerVars, engineVars, deltaVVars, celestialVars, simulationVars>>

vars == <<orbitVars, trajectoryVars, probabilityVars, serverVars>>

NoResult == [position |-> <<>>, velocity |-> <<>>]

\* ------------------------------------------------------------------------
\* Inputs of the engine
\* ------------------------------------------------------------------------

\* Orbital elements outside the registry: parabolic, negative eccentricity,
\* zero or non-finite semi-major axis, a sign of a that contradicts e.
OtherElements ==
    {[ATLAS_3I_ELEMENTS EXCEPT !.e = Fin(1000)],
     [PLANETARY_ELEMENTS.Earth EXCEPT !.e = Fin(-500)],
     [PLANETARY_ELEMENTS.Earth EXCEPT !.a = Fin(0)],
     [PLANETARY_ELEMENTS.Earth EXCEPT !.a = NaN],
     [PLANETARY_ELEMENTS.Earth EXCEPT !.a = Inf(1)],
     [PLANETARY_ELEMENTS.Earth EXCEPT !.e = NaN],
     [PLANETARY_ELEMENTS.Earth EXCEPT !.e = Fin(1500)],
     [PLANETARY_ELEMENTS.Earth EXCEPT !.a = Fin(-1000)],
     [PLANETARY_ELEMENTS.Mars EXCEPT !.e = Fin(600)]}

Registry == {PLANETARY_ELEMENTS[b] : b \in DOMAIN PLANETARY_ELEMENTS}
              \cup {ATLAS_3I_ELEMENTS}

\* The longest time after the epoch asked for, in units of 100 days
MaxCenturyDays == 195

\* Days after (or before) the epoch of the elements
DayOffsets == {0, 1, 200, 3650, -200, 100 * MaxCenturyDays}

JulianDates(el) == {Fin(el.epoch + 2 * d) : d \in DayOffsets} \cup {NaN}

\* ------------------------------------------------------------------------
\* calculatePositionAtTime, one action per step
\* ------------------------------------------------------------------------

IsElliptical(el) == FLt(el.e, Fin(1000))

LoopCondition == FGt(FAbs(deltaE), tolerance)

\* Entry: dt, n, M, and the solver's initial guess (E = M, deltaE = 1).
CallPositionAtTime(el, t) ==
    /\ pc \in {"idle", "returned"}
    /\ meanAnomaly' = MeanAnomalyAt(el, t)
    /\ anomaly' = meanAnomaly'
    /\ elements' = el
    /\ time' = t
    /\ deltaE' = Fin(1000)
    /\ iterations' = 0
    /\ stateVector' = NoResult
    /\ pc' = "solving"
    /\ UNCHANGED <<trajectoryVars, probabilityVars, serverVars>>

\* One pass of the body of the while loop of solveKeplerEquation or of
\* solveHyperbolicKepler.
NewtonStep ==
    /\ pc = "solving"
    /\ LoopCondition
    /\ iterations < MaxNewton
    /\ deltaE' = IF IsElliptical(elements)
                 THEN KeplerDelta(anomaly, meanAnomaly, elements.e)
                 ELSE HyperbolicDelta(anomaly, meanAnomaly, elements.e)
    /\ anomaly' = FSub(anomaly, deltaE')
    /\ iterations' = iterations + 1
    /\ UNCHANGED <<pc, elements, time, meanAnomaly, stateVector>>
    /\ UNCHANGED <<trajectoryVars, probabilityVars, serverVars>>

\* The loop has ended: true anomaly, state vectors, rotation, units, return.
ReturnPosition ==
    /\ pc = "solving"
    /\ ~LoopCondition
    /\ stateVector' = StateVectorAt(elements, anomaly)
    /\ pc' = "returned"
    /\ UNCHANGED <<elements, time, meanAnomaly, anomaly, deltaE, iterations>>
    /\ UNCHANGED <<trajectoryVars, probabilityVars, serverVars>>

OrbitNext ==
    \/ \E el \in Registry \cup OtherElements : \E t \in JulianDates(el) :
           CallPositionAtTime(el, t)
    \/ NewtonStep
    \/ ReturnPosition


\* ------------------------------------------------------------------------
\* calculateInterceptTrajectory and its callers
\* ------------------------------------------------------------------------

NoMission ==
    [path |-> "none", startPosition |-> <<>>, targetPosition |-> <<>>,
     timeOfFlight |-> 0, propulsionType |-> ""]

Position(x, y, z) == <<Fin(x), Fin(y), Fin(z)>>

\* Positions in thousandths of an AU: near Earth, the Sun
StartPositions == {Position(1000, 0, 0), Position(0, 0, 0)}

\* near Jupiter, a point off the ecliptic
TargetPositions == {Position(5204, 0, 0), Position(-2100, 500, 300)}

\* 200 days, the year of the socket handler, more than two years
FlightTimes == {200 * DAY_SECONDS, 365 * 24 * 60 * 60, 2 * YEAR_SECONDS + 100}

\* What a client can send as config.propulsionType: the three of the type
\* MissionConfig, a string that is no property, a property every object
\* inherits.
PropulsionTypes == {"chemical", "ion", "nuclear", "solar", "toString"}

\* The last reading of the clock a call may start from
MaxClock == 2

\* The pass of the loop in which Date.now() has moved on by a millisecond;
\* steps + 1 stands for a call that ends within the millisecond it began in.
TickPasses == {steps \div 2, steps + 1}

Readings(tickAt) == [i \in 0 .. steps |-> IF i >= tickAt THEN clock + 1 ELSE clock]

ClockAfter(tickAt) == IF tickAt <= steps THEN clock + 1 ELSE clock

\* Math.exp is finite up to 709.78 and the model's table up to MaxExpArg: a
\* call whose mass ratio lies beyond the table is left out.
WithinExpTable(r) == r.value.totalFuelUsed.c # "inf"

\* Time passes between two calls.
TickClock ==
    /\ clock < MaxClock
    /\ clock' = clock + 1
    /\ UNCHANGED <<mission, outcome, trajectory, previous, emitted>>
    /\ UNCHANGED <<orbitVars, probabilityVars, serverVars>>

\* A call of OrbitalMechanics.calculateInterceptTrajectory: the first one,
\* or one that repeats the arguments of the call before.
BuildTrajectory(startPosition, targetPosition, timeOfFlight, propulsionType, tickAt) ==
    LET args == [path |-> "engine", startPosition |-> startPosition,
                 targetPosition |-> targetPosition,
                 timeOfFlight |-> timeOfFlight,
                 propulsionType |-> propulsionType]
        Result(r) == /\ WithinExpTable(r)
                     /\ outcome' = r.outcome
                     /\ trajectory' = r.value
    IN  /\ clock <= MaxClock
        /\ \/ outcome = "none"
           \/ mission = args /\ outcome = "returned" /\ previous = NoTrajectory
        /\ Result(calculateInterceptTrajectory(startPosition, targetPosition,
                      timeOfFlight, propulsionType, Readings(tickAt)))
        /\ previous' = trajectory
        /\ mission' = args
        /\ clock' = ClockAfter(tickAt)
        /\ UNCHANGED emitted
        /\ UNCHANGED <<orbitVars, probabilityVars, serverVars>>

\* config.launchWindow as new Date(...).getTime() reads it: a Unix time (in
\* days, 2025-07-01) or NaN for an invalid or missing date.
LaunchWindows == {Fin(20270000), NaN}

UndefinedConfig == [defined |-> FALSE, launchWindow |-> NaN, propulsionType |-> ""]

MissionConfigs ==
    {[defined |-> TRUE, launchWindow |-> w, propulsionType |-> p] :
        w \in LaunchWindows, p \in PropulsionTypes} \cup {UndefinedConfig}

\* socket.on('update-mission-config'): positions at the launch time, the
\* trajectory from Earth to 3I/ATLAS for one year, 'trajectory-calculated';
\* whatever is thrown on the way is answered with 'mission-alert'.  The
\* config is read without validation; an undefined config throws a TypeError
\* at config.launchWindow.
UpdateMissionConfig(config, tickAt) ==
    LET Emit(earthPosition, atlasPosition, r) ==
            /\ WithinExpTable(r)
            /\ outcome' = r.outcome
            /\ trajectory' = r.value
            /\ mission' = [path |-> "socket",
                           startPosition |-> earthPosition,
                           targetPosition |-> atlasPosition,
                           timeOfFlight |-> 365 * 24 * 60 * 60,
                           propulsionType |-> config.propulsionType]
            /\ emitted' = IF r.outcome = "returned"
                          THEN <<"trajectory-calculated">>
                          ELSE <<"mission-alert">>
        Calculate(earthPosition, atlasPosition) ==
            Emit(earthPosition, atlasPosition,
                 calculateInterceptTrajectory(earthPosition, atlasPosition,
                     365 * 24 * 60 * 60, config.propulsionType, Readings(tickAt)))
        Handle(positions) ==
            Calculate(AsTrajectoryPosition(positions["Earth"]),
                      AsTrajectoryPosition(positions["3I/ATLAS"]))
    IN  /\ clock <= MaxClock
        /\ outcome = "none"
        /\ IF ~config.defined
           THEN /\ outcome' = "unreached"
                /\ mission' = NoMission
                /\ trajectory' = NoTrajectory
                /\ emitted' = <<"mission-alert">>
                /\ clock' = clock
           ELSE /\ Handle(getCurrentCelestialPositions(config.launchWindow))
                /\ clock' = ClockAfter(tickAt)
        /\ previous' = NoTrajectory
        /\ UNCHANGED <<orbitVars, probabilityVars, serverVars>>

\* The caller is done with what it was given; the engine keeps nothing.
Discard ==
    /\ outcome # "none"
    /\ mission' = NoMission
    /\ outcome' = "none"
    /\ trajectory' = NoTrajectory
    /\ previous' = NoTrajectory
    /\ emitted' = <<>>
    /\ UNCHANGED clock
    /\ UNCHANGED <<orbitVars, probabilityVars, serverVars>>

TrajectoryNext ==
    \/ TickClock
    \/ \E s \in StartPositions, g \in TargetPositions, f \in FlightTimes,
          p \in PropulsionTypes, k \in TickPasses :
           BuildTrajectory(s, g, f, p, k)
    \/ \E config \in MissionConfigs, k \in TickPasses :
           UpdateMissionConfig(config, k)
    \/ Discard

\* ------------------------------------------------------------------------
\* calculateInterceptProbability
\* ------------------------------------------------------------------------

NoEstimate ==
    [deltaV |-> NaN, timeOfFlight |-> 0, propulsionType |-> "", probability |-> NaN]

\* m/s: on both sides of the two thresholds, and not a number
DeltaVs == {Fin(5566), Fin(10000), Fin(10001), Fin(15000), Fin(15001), NaN}

\* s: on both sides of one year and of two years
EstimateFlightTimes ==
    {200 * DAY_SECONDS, YEAR_SECONDS, YEAR_SECONDS + 1, 2 * YEAR_SECONDS,
     2 * YEAR_SECONDS + 1}

EstimateTypes == {"chemical", "ion", "nuclear", "toString"}

\* A call of OrbitalMechanics.calculateInterceptProbability
EstimateProbability(deltaV, timeOfFlight, propulsionType) ==
    /\ estimate' = [deltaV |-> deltaV, timeOfFlight |-> timeOfFlight,
                    propulsionType |-> propulsionType,
                    probability |->
                        calculateInterceptProbability(deltaV, timeOfFlight,
                                                      propulsionType)]
    /\ estimateBefore' = estimate
    /\ UNCHANGED <<orbitVars, trajectoryVars, serverVars>>

ProbabilityNext ==
    \E d \in DeltaVs, f \in EstimateFlightTimes, p \in EstimateTypes :
        EstimateProbability(d, f, p)

\* ------------------------------------------------------------------------
\* Specifications
\* ------------------------------------------------------------------------

\* ------------------------------------------------------------------------
\* Calls of getCurrentCelestialPositions by the handlers
\* ------------------------------------------------------------------------

\* Places that call getCurrentCelestialPositions: an HTTP handler
\* (routes/celestial.ts), a timer of the socket layer and the tick of a
\* simulation.
CallSites == {"GET /positions", "sendPositionUpdate", "updateSimulation"}

\* Unix times asked for, in days: 2023-07-20, 2000-01-01 12:00, and
\* Number(req.query.time) of a text that is no number
UnixTimes == {Fin(19559000), Fin(10957500), NaN}

\* What a call of calculatePositionAtTime leaves in the elements object it
\* was given by reference, had it advanced the epoch to the time asked
ElementsAdvanced(el, julianTime) ==
    IF julianTime.c = "fin" THEN [el EXCEPT !.epoch = julianTime.v] ELSE el

\* What a call of calculatePositionAtTime leaves in the elements object it
\* was given by reference: the function reads a, e, i, omega, Omega, M and
\* epoch and assigns to none of them.
ElementsAfterCall(el, julianTime) == el

\* The tables after one call of getCurrentCelestialPositions
TablesAfterCall(tb, unixDays) ==
    [tb EXCEPT
        !.ATLAS_3I_ELEMENTS = ElementsAfterCall(@, JulianTime(unixDays)),
        !.PLANETARY_ELEMENTS =
            [name \in DOMAIN @ |-> ElementsAfterCall(@[name], JulianTime(unixDays))]]

\* One call of getCurrentCelestialPositions from a call site
EngineCall(site, t) ==
    /\ currentPositions' = CurrentCelestialPositions(tables, t)
    /\ tables' = TablesAfterCall(tables, t)
    /\ caller' = site
    /\ asked' = t
    /\ answers' = [u \in DOMAIN answers \cup {t} |->
                       IF u # t THEN answers[u]
                       ELSE IF t \in DOMAIN answers
                            THEN [answers[t] EXCEPT !.again = TRUE]
                            ELSE [positions |-> currentPositions', again |-> FALSE]]
    /\ UNCHANGED <<orbitVars, trajectoryVars, probabilityVars, fetchVars, missionVars, socketVars, keplerVars, deltaVVars, celestialVars, simulationVars>>

EngineNext == \E site \in CallSites : \E t \in UnixTimes : EngineCall(site, t)

\* ------------------------------------------------------------------------
\* Calls of calculateDeltaV
\* ------------------------------------------------------------------------

NoDeltaVCall ==
    [made |-> FALSE, r1 |-> <<>>, r2 |-> <<>>, timeOfFlight |-> 0, result |-> NaN]

\* Positions in units of 1e11 m: two of magnitude 1.5 (about an AU), two of
\* magnitude 2.5, the Sun
Radii == {Position(1500, 0, 0), Position(900, 0, -1200),
          Position(2500, 0, 0), Position(0, 1500, -2000), Position(0, 0, 0)}

DeltaVFlightTimes == {200 * DAY_SECONDS, YEAR_SECONDS}

EstimateDeltaV(r1, r2, timeOfFlight) ==
    /\ deltaVCall' = [made |-> TRUE, r1 |-> r1, r2 |-> r2,
                      timeOfFlight |-> timeOfFlight,
                      result |-> calculateDeltaV(r1, r2, timeOfFlight)]
    /\ deltaVBefore' = deltaVCall
    /\ UNCHANGED <<orbitVars, trajectoryVars, probabilityVars, fetchVars, missionVars, socketVars, keplerVars, engineVars, celestialVars, simulationVars>>

DeltaVNext ==
    \E r1 \in Radii : \E r2 \in Radii : \E timeOfFlight \in DeltaVFlightTimes :
        EstimateDeltaV(r1, r2, timeOfFlight)

\* ------------------------------------------------------------------------
\* routes/celestial.ts: GET /bodies and GET /positions
\* ------------------------------------------------------------------------

\* The names that have a code for JPL Horizons
PLANET_CODES ==
    {"Mercury", "Venus", "Earth", "Mars", "Jupiter", "Saturn", "Uranus", "Neptune"}

\* 5 * 60 * 1000 ms, in minutes
CACHE_DURATION == 5

\* The static bodies, by name, with their position in thousandths of an AU
CELESTIAL_BODIES ==
    [Sun |-> Position(0, 0, 0), Mercury |-> Position(387, 0, 0),
     Venus |-> Position(723, 0, 0), Earth |-> Position(1000, 0, 0),
     Mars |-> Position(1524, 0, 0), Jupiter |-> Position(5204, 0, 0)]

NoRequest == [route |-> "none"]

\* null, as a value that compares with a position
null == <<>>

NoResponse == [data |-> <<>>]

\* Times a client asks for: a finite one, and Number() of a text that is no
\* number
RequestTimes == {Fin(19559000), NaN}

\* getCurrentCelestialPositions for the times asked
FallbackPositions == [t \in RequestTimes |-> getCurrentCelestialPositions(t)]

\* The row of a Horizons answer for a body, in units of 1e5 km; null when
\* the request fails, times out or has no row between $$SOE and $$EOE
HorizonsRow(name) ==
    CASE name = "Earth"    -> Position(-1020, 1080, 0)
      [] name = "Saturn"   -> Position(14200, -1500, -540)
      [] name = "3I/ATLAS" -> Position(2992, -5984, 1496)
      [] OTHER             -> Position(700, 700, 10)

\* What Horizons answers during one request, body by body: down; up; rows
\* for two planets, a row without a z column for a third, nothing else
HorizonsReplies ==
    {[name \in PLANET_CODES \cup {"3I/ATLAS"} |-> null],
     [name \in PLANET_CODES \cup {"3I/ATLAS"} |-> HorizonsRow(name)],
     [name \in PLANET_CODES \cup {"3I/ATLAS"} |->
         IF name \in {"Earth", "Saturn"} THEN HorizonsRow(name)
         ELSE IF name = "Mars" THEN <<Fin(700), Fin(700), NaN>>
         ELSE null]}

\* `${planetName}_${Math.floor(time / CACHE_DURATION)}`: the time is held in
\* days (thousandths), a day has 288 periods of five minutes; -1 stands for
\* the NaN of a time that is no number
CacheKey(name, t) ==
    IF t.c # "fin" THEN <<name, -1>>
    ELSE <<name, (t.v \div 1000) * 288 + ((t.v % 1000) * 288) \div 1000>>

\* cached && (Date.now() - cached.timestamp) < CACHE_DURATION
Unexpired(cache, key, at) ==
    /\ key \in DOMAIN cache
    /\ at - cache[key].timestamp < CACHE_DURATION

\* x, y, z of a row, or null: parseFloat of a missing column is NaN
ParsedRow(row) ==
    IF row = null THEN null
    ELSE IF \E k \in 1..3 : ~IsFinite(row[k]) THEN null
    ELSE row

\* fetchPlanetaryPosition: the value returned.  new
\* Date(NaN).toISOString() throws inside the try, which returns null.
fetchPlanetaryPosition(cache, at, name, t, reply) ==
    IF Unexpired(cache, CacheKey(name, t), at)
    THEN cache[CacheKey(name, t)].data
    ELSE IF name \notin PLANET_CODES THEN null
    ELSE IF t.c # "fin" THEN null
    ELSE ParsedRow(reply[name])

\* fetchPlanetaryPosition: the cache after the call
PlanetaryCacheAfter(cache, at, names, t, reply) ==
    LET fetched == {name \in names :
                       /\ ~Unexpired(cache, CacheKey(name, t), at)
                       /\ fetchPlanetaryPosition(cache, at, name, t, reply) # null}
        keys == {CacheKey(name, t) : name \in fetched}
    IN  [key \in DOMAIN cache \cup keys |->
            IF key \in keys
            THEN [data |-> ParsedRow(reply[key[1]]), timestamp |-> at]
            ELSE cache[key]]

\* fetchAllPlanetaryPositions: one entry per planet whose fetch gave a position
fetchAllPlanetaryPositions(cache, at, t, reply) ==
    LET found == {name \in PLANET_CODES :
                     fetchPlanetaryPosition(cache, at, name, t, reply) # null}
    IN  [name \in found |-> fetchPlanetaryPosition(cache, at, name, t, reply)]

\* x / AU_KM: a coordinate in units of 1e5 km to thousandths of an AU
KmToAU(x) == FScale(x, 1000, RoundDiv(AU, 100000))

\* fetchAtlasLivePosition: the value returned
fetchAtlasLivePosition(cache, at, t, reply) ==
    IF Unexpired(cache, CacheKey("atlas", t), at)
    THEN cache[CacheKey("atlas", t)].position
    ELSE IF t.c # "fin" THEN null
    ELSE IF ParsedRow(reply["3I/ATLAS"]) = null THEN null
    ELSE [k \in 1..3 |-> KmToAU(reply["3I/ATLAS"][k])]

\* fetchAtlasLivePosition: the cache after the call
AtlasCacheAfter(cache, at, t, reply) ==
    IF \/ Unexpired(cache, CacheKey("atlas", t), at)
       \/ fetchAtlasLivePosition(cache, at, t, reply) = null
    THEN cache
    ELSE [key \in DOMAIN cache \cup {CacheKey("atlas", t)} |->
             IF key = CacheKey("atlas", t)
             THEN [position |-> fetchAtlasLivePosition(cache, at, t, reply),
                   timestamp |-> at]
             ELSE cache[key]]

\* { ...livePositions, ...atlasPositions, ...fallbackPositions }
MergeCalculatedLast(fallbackPositions, livePositions, atlasPositions) ==
    [name \in DOMAIN fallbackPositions \cup DOMAIN livePositions
                  \cup DOMAIN atlasPositions |->
        IF name \in DOMAIN fallbackPositions THEN fallbackPositions[name]
        ELSE IF name \in DOMAIN atlasPositions THEN atlasPositions[name]
        ELSE livePositions[name]]

\* { ...fallbackPositions, ...livePositions, ...atlasPositions }: a later
\* spread replaces the keys of an earlier one
MergePositions(fallbackPositions, livePositions, atlasPositions) ==
    [name \in DOMAIN fallbackPositions \cup DOMAIN livePositions
                  \cup DOMAIN atlasPositions |->
        IF name \in DOMAIN atlasPositions THEN atlasPositions[name]
        ELSE IF name \in DOMAIN livePositions THEN livePositions[name]
        ELSE fallbackPositions[name]]

\* livePositions[body.name] || fallbackPositions[body.name] || body.position
\* (an array is truthy whatever it holds), and the dataSource beside it
BodyWithPosition(name, livePositions, fallbackPositions) ==
    [position |-> IF name \in DOMAIN livePositions THEN livePositions[name]
                  ELSE IF name \in DOMAIN fallbackPositions
                       THEN fallbackPositions[name]
                       ELSE CELESTIAL_BODIES[name],
     dataSource |-> IF name \in DOMAIN livePositions THEN "nasa_live"
                    ELSE "calculated"]

\* The longest time on the server's clock, in minutes
MaxNow == 7

\* Minutes between two requests
Waits == {1, 4}

\* GET /api/celestial/bodies?time=...
GetBodies(t, reply, wait) ==
    LET Respond(livePositions, fallbackPositions) ==
            response' =
                [data |-> [name \in DOMAIN CELESTIAL_BODIES |->
                              BodyWithPosition(name, livePositions, fallbackPositions)],
                 liveDataCount |-> Cardinality(DOMAIN livePositions)]
    IN  /\ now + wait <= MaxNow
        /\ now' = now + wait
        /\ request' = [route |-> "GET /bodies", time |-> t, reply |-> reply,
                       at |-> now', planetaryCache |-> planetaryCache,
                       atlasCache |-> atlasCache]
        /\ Respond(fetchAllPlanetaryPositions(planetaryCache, now', t, reply),
                   calculated[t])
        /\ planetaryCache' =
               PlanetaryCacheAfter(planetaryCache, now', PLANET_CODES, t, reply)
        /\ UNCHANGED <<atlasCache, calculated>>
        /\ UNCHANGED <<orbitVars, trajectoryVars, probabilityVars, fetchVars, missionVars, socketVars, keplerVars, engineVars, deltaVVars, simulationVars>>

\* GET /api/celestial/positions?time=...
GetPositions(t, reply, wait) ==
    LET Respond(livePositions, fallbackPositions, atlasLive) ==
            response' =
                [data |-> MergePositions(fallbackPositions, livePositions,
                              IF atlasLive = null THEN <<>>
                              ELSE [name \in {"3I/ATLAS"} |-> atlasLive]),
                 liveDataCount |-> Cardinality(DOMAIN livePositions)
                                     + (IF atlasLive = null THEN 0 ELSE 1)]
    IN  /\ now + wait <= MaxNow
        /\ now' = now + wait
        /\ request' = [route |-> "GET /positions", time |-> t, reply |-> reply,
                       at |-> now', planetaryCache |-> planetaryCache,
                       atlasCache |-> atlasCache]
        /\ Respond(fetchAllPlanetaryPositions(planetaryCache, now', t, reply),
                   calculated[t],
                   fetchAtlasLivePosition(atlasCache, now', t, reply))
        /\ planetaryCache' =
               PlanetaryCacheAfter(planetaryCache, now', PLANET_CODES, t, reply)
        /\ atlasCache' = AtlasCacheAfter(atlasCache, now', t, reply)
        /\ UNCHANGED calculated
        /\ UNCHANGED <<orbitVars, trajectoryVars, probabilityVars, fetchVars, missionVars, socketVars, keplerVars, engineVars, deltaVVars, simulationVars>>

CelestialNext ==
    \E t \in RequestTimes : \E reply \in HorizonsReplies : \E wait \in Waits :
        \/ GetBodies(t, reply, wait)
        \/ GetPositions(t, reply, wait)

\* ------------------------------------------------------------------------
\* routes/celestial.ts: fetchPlanetaryPosition call by call.  The function
\* is async: between its cache check and its cache write it awaits the
\* answer of JPL Horizons, and other calls run meanwhile.
\* ------------------------------------------------------------------------

\* The most calls that wait for an answer at a time
MaxInFlight == 2

\* No entry: the timestamp of a key the cache does not hold
NoEntry == -1

NoFetch == [how |-> "none", key |-> <<>>, at |-> 0, stored |-> NoEntry]

\* Names asked for: a planet and a name without a code
FetchNames == {"Earth", "Pluto"}

\* Times asked for: two in one period of five minutes, and NaN
FetchTimes == {Fin(19559000), Fin(19559001), NaN}

\* What Horizons answers to one request: a row, or a row whose z column is
\* missing (an error or a timeout ends in null as well)
FetchAnswers(name) == {HorizonsRow(name), <<Fin(700), Fin(700), NaN>>}

StoredAt(cache, key) == IF key \in DOMAIN cache THEN cache[key].timestamp ELSE NoEntry

\* The call up to `await axios.get(...)`: the cache check, the planet code,
\* the dates of the query (new Date(NaN).toISOString() throws)
FetchBegin(name, t) ==
    /\ IF Unexpired(planetaryCache, CacheKey(name, t), now)
       THEN /\ settled' = [how |-> "cached", key |-> CacheKey(name, t), at |-> now,
                           stored |-> planetaryCache[CacheKey(name, t)].timestamp]
            /\ UNCHANGED inFlight
       ELSE IF name \notin PLANET_CODES \/ t.c # "fin"
       THEN /\ settled' = [how |-> "null", key |-> CacheKey(name, t), at |-> now,
                           stored |-> StoredAt(planetaryCache, CacheKey(name, t))]
            /\ UNCHANGED inFlight
       ELSE /\ Cardinality(inFlight) < MaxInFlight
            /\ inFlight' = inFlight \cup
                   {[n |-> CHOOSE k \in 1..MaxInFlight + 1 : \A f \in inFlight : f.n # k,
                     name |-> name, time |-> t]}
            /\ UNCHANGED settled
    /\ UNCHANGED <<now, planetaryCache, atlasCache, calculated, request, response>>
    /\ UNCHANGED <<orbitVars, trajectoryVars, probabilityVars, missionVars, socketVars, keplerVars, engineVars, deltaVVars, simulationVars>>

\* The call after the await: the answer is parsed; a position is cached
\* under the key with Date.now() and returned, anything else returns null
FetchEnd(f, row) ==
    /\ f \in inFlight
    /\ inFlight' = inFlight \ {f}
    /\ IF ParsedRow(row) = null
       THEN /\ settled' = [how |-> "null", key |-> CacheKey(f.name, f.time), at |-> now,
                           stored |-> StoredAt(planetaryCache, CacheKey(f.name, f.time))]
            /\ UNCHANGED planetaryCache
       ELSE /\ settled' = [how |-> "live", key |-> CacheKey(f.name, f.time), at |-> now,
                           stored |-> StoredAt(planetaryCache, CacheKey(f.name, f.time))]
            /\ planetaryCache' =
                   [key \in DOMAIN planetaryCache \cup {CacheKey(f.name, f.time)} |->
                       IF key = CacheKey(f.name, f.time)
                       THEN [data |-> ParsedRow(row), timestamp |-> now]
                       ELSE planetaryCache[key]]
    /\ UNCHANGED <<now, atlasCache, calculated, request, response>>
    /\ UNCHANGED <<orbitVars, trajectoryVars, probabilityVars, missionVars, socketVars, keplerVars, engineVars, deltaVVars, simulationVars>>

\* Time passes on the server's clock
FetchWait(wait) ==
    /\ now + wait <= MaxNow
    /\ now' = now + wait
    /\ UNCHANGED <<planetaryCache, atlasCache, calculated, request, response>>
    /\ UNCHANGED <<inFlight, settled>>
    /\ UNCHANGED <<orbitVars, trajectoryVars, probabilityVars, missionVars, socketVars, keplerVars, engineVars, deltaVVars, simulationVars>>

FetchNext ==
    \/ \E name \in FetchNames : \E t \in FetchTimes : FetchBegin(name, t)
    \/ \E f \in inFlight : \E row \in FetchAnswers(f.name) : FetchEnd(f, row)
    \/ \E wait \in Waits : FetchWait(wait)

\* ------------------------------------------------------------------------
\* routes/simulation.ts: POST /start and the interval timer of a simulation
\* ------------------------------------------------------------------------

\* parseInt(process.env.MAX_CONCURRENT_SIMULATIONS || '10'), for a server
\* started with a small limit in its environment
MAX_CONCURRENT_SIMULATIONS == 3

\* Single ticks are followed for this many seconds of a simulation
MaxTicks == 2

\* simulation.elapsedTime > 365 * 24 * 60 * 60 stops the simulation
AutoStopAfter == 365 * 24 * 60 * 60

NoAnswer == [route |-> "timer", status |-> 0, id |-> 0]

\* Bodies of POST /start: a valid configuration, one without launchWindow,
\* one whose launchWindow is no ISO date, a propulsion type outside the
\* schema, an empty payload
StartBodies ==
    {[launchWindow |-> "2025-07-01T00:00:00Z", propulsionType |-> "ion",
      payload |-> <<"camera">>],
     [propulsionType |-> "ion", payload |-> <<"camera">>],
     [launchWindow |-> "tomorrow", propulsionType |-> "chemical",
      payload |-> <<"probe">>],
     [launchWindow |-> "2025-07-01T00:00:00Z", propulsionType |-> "solar",
      payload |-> <<"camera", "spectrometer">>],
     [launchWindow |-> "2025-07-01T00:00:00Z", propulsionType |-> "nuclear",
      payload |-> <<>>]}

\* Valid bodies with the other two propulsion types
MissionBodies ==
    {[launchWindow |-> "2025-07-01T00:00:00Z", propulsionType |-> "chemical",
      payload |-> <<"probe">>],
     [launchWindow |-> "2025-07-01T00:00:00Z", propulsionType |-> "nuclear",
      payload |-> <<"spectrometer">>]}

\* missionConfigSchema.validate(req.body) has no error
ValidConfig(body) ==
    /\ "launchWindow" \in DOMAIN body
    /\ body.launchWindow \in {"2025-07-01T00:00:00Z"}
    /\ "propulsionType" \in DOMAIN body
    /\ body.propulsionType \in {"chemical", "ion", "nuclear"}
    /\ "payload" \in DOMAIN body
    /\ Len(body.payload) >= 1
    /\ \A k \in 1..Len(body.payload) :
           body.payload[k] \in {"camera", "spectrometer", "probe"}

\* simulations.size > limit
LimitExceeded(size) == size > MAX_CONCURRENT_SIMULATIONS

\* simulations.size >= limit
LimitReached(size) == size >= MAX_CONCURRENT_SIMULATIONS

\* generateSimulationId: an id no simulation has yet ('sim_' + Date.now() +
\* '_' + nine random characters), here the next number
generateSimulationId == Cardinality(DOMAIN simulations) + 1

\* POST /api/simulation/start
PostStart(body) ==
    /\ IF ~ValidConfig(body)
       THEN /\ answer' = [route |-> "POST /start", status |-> 400, id |-> 0]
            /\ UNCHANGED <<simulations, simulationIntervals>>
       ELSE IF LimitReached(Cardinality(DOMAIN simulations))
       THEN /\ answer' = [route |-> "POST /start", status |-> 429, id |-> 0]
            /\ UNCHANGED <<simulations, simulationIntervals>>
       ELSE /\ simulations' =
                   [id \in DOMAIN simulations \cup {generateSimulationId} |->
                       IF id = generateSimulationId
                       THEN [isRunning |-> TRUE, elapsedTime |-> 0, config |-> body]
                       ELSE simulations[id]]
            /\ simulationIntervals' = simulationIntervals \cup {generateSimulationId}
            /\ answer' = [route |-> "POST /start", status |-> 200,
                         id |-> generateSimulationId]
    /\ UNCHANGED ticked
    /\ UNCHANGED <<orbitVars, trajectoryVars, probabilityVars, fetchVars, missionVars, socketVars, keplerVars, engineVars, deltaVVars, celestialVars>>

\* (global as any).io: setupSocketHandlers, which index.ts calls before the
\* server listens, stores the Socket.IO server there
GlobalIo == TRUE

\* The auto-stop that leaves the timer registered
IntervalsKept(intervals, id) == intervals

\* clearInterval(interval); simulationIntervals.delete(simulationId)
IntervalsCleared(intervals, id) == intervals \ {id}

\* updateSimulation(simulationId) run by the interval timer, `seconds` times
\* in a row (1, or the seconds of a year)
UpdateSimulation(id, seconds) ==
    /\ id \in simulationIntervals
    /\ seconds = 1 \/ simulations[id].elapsedTime < MaxTicks
    /\ simulations[id].elapsedTime < MaxTicks
          \/ simulations[id].elapsedTime >= AutoStopAfter
    /\ IF ~simulations[id].isRunning
       THEN UNCHANGED <<simulations, simulationIntervals, ticked>>
       ELSE /\ ticked' = IF GlobalIo
                           THEN (id :> simulations[id].elapsedTime + seconds) @@ ticked
                           ELSE ticked
            /\ simulations' =
                   [simulations EXCEPT
                       ![id].elapsedTime = @ + seconds,
                       ![id].isRunning = ~(@ /\ simulations[id].elapsedTime + seconds > AutoStopAfter)]
            /\ simulationIntervals' =
                   IF simulations[id].elapsedTime + seconds > AutoStopAfter
                   THEN IntervalsCleared(simulationIntervals, id)
                   ELSE simulationIntervals
    /\ answer' = NoAnswer
    /\ UNCHANGED <<orbitVars, trajectoryVars, probabilityVars, fetchVars, missionVars, socketVars, keplerVars, engineVars, deltaVVars, celestialVars>>

\* A request to a path the router has no route for (POST /pause,
\* GET /:id): no handler of routes/simulation.ts runs and Express answers 404
NoRoute(route, id) ==
    /\ answer' = [route |-> route, status |-> 404, id |-> id]
    /\ UNCHANGED <<simulations, simulationIntervals, ticked>>
    /\ UNCHANGED <<orbitVars, trajectoryVars, probabilityVars, fetchVars, missionVars, socketVars, keplerVars, engineVars, deltaVVars, celestialVars>>

SimulationNext ==
    \/ \E body \in StartBodies : PostStart(body)
    \/ \E id \in simulationIntervals : \E seconds \in {1, AutoStopAfter} :
           UpdateSimulation(id, seconds)
    \/ \E route \in {"POST /pause", "GET /:id"} :
           \E id \in 1..MAX_CONCURRENT_SIMULATIONS : NoRoute(route, id)

\* ------------------------------------------------------------------------
\* sockets/socketHandlers.ts: the connection callback and its timers
\* ------------------------------------------------------------------------

\* The socket ids
Sockets == {"s1", "s2"}

\* The most setInterval timers followed at a time
MaxTimers == 3

\* positionUpdateInterval = null
NoHandle == 0

NoStep == [by |-> "none", socket |-> "none", computed |-> FALSE, emits |-> <<>>]

\* setInterval(...) returns a handle no active timer has
setInterval(active) == CHOOSE h \in 1..MaxTimers + 1 : h \notin DOMAIN active

\* The timers after setInterval(callback, seconds * 1000) in the callback of
\* socket s
TimersWith(active, h, s, seconds) ==
    [k \in DOMAIN active \cup {h} |->
        IF k = h THEN [socket |-> s, seconds |-> seconds] ELSE active[k]]

\* The timers after clearInterval(h) for each h of handles
TimersWithout(active, handles) == [k \in DOMAIN active \ handles |-> active[k]]

\* startPositionUpdates that sets a new interval beside the existing one
ExistingIntervalKept(active, h) == active

\* if (positionUpdateInterval) clearInterval(positionUpdateInterval)
ExistingIntervalCleared(active, h) == TimersWithout(active, {h})

\* sendPositionUpdate: the engine is asked, and the two events are emitted
\* if positionSubscribers.size > 0
sendPositionUpdate(subscribers) ==
    IF subscribers # {} THEN <<"position_update", "data_source_change">> ELSE <<>>

\* io.on('connection'): the client is recorded, 'connected' is emitted
Connect(s) ==
    /\ connection[s] = "none"
    /\ connection' = [connection EXCEPT ![s] = "connected"]
    /\ connectedClients' = connectedClients \cup {s}
    /\ handled' = [by |-> "connection", socket |-> s, computed |-> FALSE,
                   emits |-> <<"connected">>]
    /\ UNCHANGED <<positionSubscribers, positionUpdateInterval, updateIntervals, timers>>
    /\ UNCHANGED <<orbitVars, trajectoryVars, probabilityVars, fetchVars, missionVars, keplerVars, engineVars, deltaVVars, celestialVars, simulationVars>>

\* socket.on('subscribe_position_updates'): positionSubscribers.add, and
\* startPositionUpdates() if the size is 1
SubscribePositionUpdates(s) ==
    /\ connection[s] = "connected"
    /\ Cardinality(DOMAIN timers) < MaxTimers
    /\ positionSubscribers' = [positionSubscribers EXCEPT ![s] = @ \cup {s}]
    /\ IF Cardinality(positionSubscribers'[s]) = 1
       THEN \E h \in {setInterval(ExistingIntervalCleared(timers, positionUpdateInterval[s]))} :
                /\ timers' = TimersWith(ExistingIntervalCleared(timers, positionUpdateInterval[s]), h, s, 1)
                /\ positionUpdateInterval' = [positionUpdateInterval EXCEPT ![s] = h]
                /\ handled' = [by |-> "subscribe_position_updates", socket |-> s,
                               computed |-> TRUE,
                               emits |-> sendPositionUpdate(positionSubscribers'[s])]
       ELSE /\ UNCHANGED <<timers, positionUpdateInterval>>
            /\ handled' = [by |-> "subscribe_position_updates", socket |-> s,
                           computed |-> FALSE, emits |-> <<>>]
    /\ UNCHANGED <<connection, connectedClients, updateIntervals>>
    /\ UNCHANGED <<orbitVars, trajectoryVars, probabilityVars, fetchVars, missionVars, keplerVars, engineVars, deltaVVars, celestialVars, simulationVars>>

\* socket.on('unsubscribe_position_updates')
UnsubscribePositionUpdates(s) ==
    /\ connection[s] = "connected"
    /\ positionSubscribers' = [positionSubscribers EXCEPT ![s] = @ \ {s}]
    /\ IF positionSubscribers'[s] = {} /\ positionUpdateInterval[s] # NoHandle
       THEN /\ timers' = TimersWithout(timers, {positionUpdateInterval[s]})
            /\ positionUpdateInterval' = [positionUpdateInterval EXCEPT ![s] = NoHandle]
       ELSE UNCHANGED <<timers, positionUpdateInterval>>
    /\ handled' = [by |-> "unsubscribe_position_updates", socket |-> s,
                   computed |-> FALSE, emits |-> <<>>]
    /\ UNCHANGED <<connection, connectedClients, updateIntervals>>
    /\ UNCHANGED <<orbitVars, trajectoryVars, probabilityVars, fetchVars, missionVars, keplerVars, engineVars, deltaVVars, celestialVars, simulationVars>>

\* socket.on('subscribe-positions'): the initial 'position-update', a new
\* 2-second interval, and a disconnect listener that clears it
SubscribePositions(s) ==
    /\ connection[s] = "connected"
    /\ Cardinality(DOMAIN timers) < MaxTimers
    /\ timers' = TimersWith(timers, setInterval(timers), s, 2)
    /\ updateIntervals' = [updateIntervals EXCEPT ![s] = @ \cup {setInterval(timers)}]
    /\ handled' = [by |-> "subscribe-positions", socket |-> s, computed |-> TRUE,
                   emits |-> <<"position-update">>]
    /\ UNCHANGED <<connection, connectedClients, positionSubscribers, positionUpdateInterval>>
    /\ UNCHANGED <<orbitVars, trajectoryVars, probabilityVars, fetchVars, missionVars, keplerVars, engineVars, deltaVVars, celestialVars, simulationVars>>

\* An interval timer fires: sendPositionUpdate for a 1-second timer, the
\* callback of 'subscribe-positions' for a 2-second one
TimerFires(h) ==
    /\ h \in DOMAIN timers
    /\ handled' = [by |-> "timer", socket |-> timers[h].socket, computed |-> TRUE,
                   emits |-> IF timers[h].seconds = 1
                             THEN sendPositionUpdate(positionSubscribers[timers[h].socket])
                             ELSE <<"position-update">>]
    /\ UNCHANGED <<connection, connectedClients, positionSubscribers, positionUpdateInterval, updateIntervals, timers>>
    /\ UNCHANGED <<orbitVars, trajectoryVars, probabilityVars, fetchVars, missionVars, keplerVars, engineVars, deltaVVars, celestialVars, simulationVars>>

\* The socket disconnects: every 'disconnect' listener runs, those that
\* 'subscribe-positions' added (clearInterval(updateInterval)) and the one of
\* the connection callback (connectedClients.delete)
Disconnect(s) ==
    /\ connection[s] = "connected"
    /\ connection' = [connection EXCEPT ![s] = "disconnected"]
    /\ timers' = TimersWithout(timers, updateIntervals[s])
    /\ connectedClients' = connectedClients \ {s}
    /\ handled' = [by |-> "disconnect", socket |-> s, computed |-> FALSE, emits |-> <<>>]
    /\ UNCHANGED <<positionSubscribers, positionUpdateInterval, updateIntervals>>
    /\ UNCHANGED <<orbitVars, trajectoryVars, probabilityVars, fetchVars, missionVars, keplerVars, engineVars, deltaVVars, celestialVars, simulationVars>>

SocketNext ==
    \/ \E s \in Sockets : Connect(s)
    \/ \E s \in Sockets : SubscribePositionUpdates(s)
    \/ \E s \in Sockets : UnsubscribePositionUpdates(s)
    \/ \E s \in Sockets : SubscribePositions(s)
    \/ \E h \in 1..MaxTimers + 1 : TimerFires(h)
    \/ \E s \in Sockets : Disconnect(s)

\* ------------------------------------------------------------------------
\* routes/mission.ts: POST /calculate
\* ------------------------------------------------------------------------

NoCalculation ==
    [status |-> 0, totalDeltaV |-> NaN, flightTime |-> 0, propulsionType |-> "",
     interceptProbability |-> NaN, warnings |-> <<>>]

\* What the trajectory of a request holds as totalDeltaV (m/s): values on
\* both sides of the thresholds of the engine and of the route
TrajectoryDeltaVs == DeltaVs \cup {Fin(12000), Fin(12001)}

\* ... and as flightTime (s): also more than three years
TrajectoryFlightTimes == EstimateFlightTimes \cup {3 * 365 * 24 * 60 * 60 + 1}

\* trajectory.interceptProbability < 50, for a probability in units of 1e-8
LowInterceptProbability(probability) ==
    probability.c = "fin" /\ probability.v \div 100 < 50 * 1000000

\* lines 79-90: the warnings of a calculation, in the order they are pushed
Warnings(probability, totalDeltaV, flightTime) ==
    (IF LowInterceptProbability(probability)
     THEN <<"Low intercept probability - consider adjusting mission parameters">>
     ELSE <<>>)
    \o (IF FGt(totalDeltaV, Fin(12000))
        THEN <<"High delta-V requirement - may exceed fuel capacity">>
        ELSE <<>>)
    \o (IF flightTime > 3 * 365 * 24 * 60 * 60
        THEN <<"Extended mission duration - consider reliability factors">>
        ELSE <<>>)

\* POST /api/mission/calculate.  The body is validated with the schema of
\* POST /start (ValidationError: 400).  The positions at the launch time and
\* the flight-time estimate fix the arguments of calculateInterceptTrajectory;
\* of the trajectory it returns, the answer's warnings read totalDeltaV,
\* flightTime and interceptProbability =
\* calculateInterceptProbability(totalDeltaV, timeOfFlight, config).
PostCalculate(body, totalDeltaV, timeOfFlight) ==
    /\ calculation' =
           IF ~ValidConfig(body)
           THEN [NoCalculation EXCEPT !.status = 400]
           ELSE [status |-> 200, totalDeltaV |-> totalDeltaV,
                 flightTime |-> timeOfFlight,
                 propulsionType |-> body.propulsionType,
                 interceptProbability |->
                     calculateInterceptProbability(totalDeltaV, timeOfFlight,
                                                   body.propulsionType),
                 warnings |->
                     Warnings(calculateInterceptProbability(totalDeltaV, timeOfFlight,
                                                            body.propulsionType),
                              totalDeltaV, timeOfFlight)]
    /\ UNCHANGED <<orbitVars, trajectoryVars, probabilityVars, fetchVars, socketVars, keplerVars, engineVars, deltaVVars, celestialVars, simulationVars>>

MissionNext ==
    \E body \in StartBodies \cup MissionBodies, d \in TrajectoryDeltaVs,
       f \in TrajectoryFlightTimes :
        PostCalculate(body, d, f)

\* ------------------------------------------------------------------------
\* solveKeplerEquation with sixteen decimals, one action per step
\* ------------------------------------------------------------------------

NoKeplerCall ==
    [pc |-> "idle", M |-> LZero, e |-> LZero, E |-> LZero, deltaE |-> LZero,
     iterations |-> 0]

\* Eccentricities of [0, 0.99]: a circle, the planets of PLANETARY_ELEMENTS
\* (Earth 0.017, Mercury 0.206), 0.5, 0.9 and 0.99
SolverEccentricities ==
    {LZero, <<0, 170, 0, 0, 0>>, <<0, 2060, 0, 0, 0>>, <<0, 5000, 0, 0, 0>>,
     <<0, 9000, 0, 0, 0>>, <<0, 9900, 0, 0, 0>>}

\* Mean anomalies of [-2 pi, 2 pi]
SolverAnomalies ==
    LET Positive == {<<0, 100, 0, 0, 0>>, <<0, 1000, 0, 0, 0>>, <<0, 5000, 0, 0, 0>>,
                     LOne, <<2, 0, 0, 0, 0>>, LPi, <<5, 0, 0, 0, 0>>, LTwoPi}
    IN  {LZero} \cup Positive \cup {LNeg(m) : m \in Positive}

\* while (Math.abs(deltaE) > tolerance)
SolverLoopCondition == LGt(LAbs(newton.deltaE), defaultTolerance)

\* Entry: let E = meanAnomaly, let deltaE = 1
CallSolveKepler(meanAnomalyArg, eccentricity) ==
    /\ newton.pc \in {"idle", "returned"}
    /\ newton' = [pc |-> "solving", M |-> meanAnomalyArg, e |-> eccentricity,
                  E |-> meanAnomalyArg, deltaE |-> initialDeltaE, iterations |-> 0]
    /\ UNCHANGED <<orbitVars, trajectoryVars, probabilityVars, fetchVars, missionVars, socketVars, engineVars, deltaVVars, celestialVars, simulationVars>>

\* One pass of the loop body: f, df, deltaE = f / df, E = E - deltaE
SolverPass ==
    /\ newton.pc = "solving"
    /\ SolverLoopCondition
    /\ newton.iterations < MaxNewton
    /\ \E d \in {KeplerDeltaE(newton.E, newton.M, newton.e)} :
           newton' = [newton EXCEPT !.deltaE = d, !.E = LSub(newton.E, d),
                                    !.iterations = newton.iterations + 1]
    /\ UNCHANGED <<orbitVars, trajectoryVars, probabilityVars, fetchVars, missionVars, socketVars, engineVars, deltaVVars, celestialVars, simulationVars>>

\* The loop has ended: return E
SolverReturn ==
    /\ newton.pc = "solving"
    /\ ~SolverLoopCondition
    /\ newton' = [newton EXCEPT !.pc = "returned"]
    /\ UNCHANGED <<orbitVars, trajectoryVars, probabilityVars, fetchVars, missionVars, socketVars, engineVars, deltaVVars, celestialVars, simulationVars>>

KeplerNext ==
    \/ \E m \in SolverAnomalies : \E ecc \in SolverEccentricities :
           CallSolveKepler(m, ecc)
    \/ SolverPass
    \/ SolverReturn

Init ==
    /\ pc = "idle"
    /\ elements = ATLAS_3I_ELEMENTS
    /\ time = Fin(ATLAS_3I_ELEMENTS.epoch)
    /\ meanAnomaly = Fin(0)
    /\ anomaly = Fin(0)
    /\ deltaE = Fin(1000)
    /\ iterations = 0
    /\ stateVector = NoResult
    /\ clock = 0
    /\ mission = NoMission
    /\ outcome = "none"
    /\ trajectory = NoTrajectory
    /\ previous = NoTrajectory
    /\ emitted = <<>>
    /\ estimate = NoEstimate
    /\ estimateBefore = NoEstimate
    /\ tables = Tables
    /\ caller = "none"
    /\ asked = NaN
    /\ currentPositions = <<>>
    /\ answers = <<>>
    /\ deltaVCall = NoDeltaVCall
    /\ deltaVBefore = NoDeltaVCall
    /\ now = 0
    /\ planetaryCache = <<>>
    /\ atlasCache = <<>>
    /\ calculated = FallbackPositions
    /\ request = NoRequest
    /\ response = NoResponse
    /\ simulations = <<>>
    /\ simulationIntervals = {}
    /\ ticked = <<>>
    /\ answer = NoAnswer
    /\ newton = NoKeplerCall
    /\ connection = [s \in Sockets |-> "none"]
    /\ connectedClients = {}
    /\ positionSubscribers = [s \in Sockets |-> {}]
    /\ positionUpdateInterval = [s \in Sockets |-> NoHandle]
    /\ updateIntervals = [s \in Sockets |-> {}]
    /\ timers = <<>>
    /\ handled = NoStep
    /\ calculation = NoCalculation
    /\ inFlight = {}
    /\ settled = NoFetch

\* Calls of calculatePositionAtTime
SpecOrbit == Init /\ [][OrbitNext]_vars

\* Calls of calculateInterceptTrajectory, direct and through the socket
SpecTrajectory == Init /\ [][TrajectoryNext]_vars

\* Calls of calculateInterceptProbability
SpecProbability == Init /\ [][ProbabilityNext]_vars

\* Calls of getCurrentCelestialPositions
SpecEngine == Init /\ [][EngineNext]_vars

\* Calls of calculateDeltaV
SpecDeltaV == Init /\ [][DeltaVNext]_vars

\* Requests to routes/celestial.ts
SpecCelestial == Init /\ [][CelestialNext]_vars

\* Requests to routes/simulation.ts and its timers
SpecSimulation == Init /\ [][SimulationNext]_vars

\* Calls of solveKeplerEquation with sixteen decimals
SpecKepler == Init /\ [][KeplerNext]_vars

\* Socket connections, their subscriptions and their timers
SpecSocket == Init /\ [][SocketNext]_vars

\* Requests to POST /api/mission/calculate
SpecMission == Init /\ [][MissionNext]_vars

\* Calls of fetchPlanetaryPosition that overlap
SpecFetch == Init /\ [][FetchNext]_vars

\* ------------------------------------------------------------------------
\* Properties of calculatePositionAtTime (SpecOrbit)
\* ------------------------------------------------------------------------

\* C1: every call of solveKeplerEquation and of solveHyperbolicKepler ends
\* after at most 100 Newton-Raphson iterations, with a value or with
\* NumericalDivergence: no call is ever in a pass beyond the hundredth.
C1_IterationsBounded == iterations <= 100

\* C2: a call of calculatePositionAtTime for elements with eccentricity
\* exactly 1 fails with UnsupportedOrbitType: it never returns a result.
C2_ParabolicNeverReturns == ~(pc = "returned" /\ FEq(elements.e, Fin(1000)))

\* a or e is non-finite, e < 0, a = 0, or the sign of a contradicts
\* a < 0 <=> e >= 1
OutOfDomain(el) ==
    \/ ~IsFinite(el.a)
    \/ ~IsFinite(el.e)
    \/ el.e.v < 0
    \/ el.a.v = 0
    \/ ~((el.a.v < 0) <=> (el.e.v >= 1000))

\* C4: a call of calculatePositionAtTime for elements whose a or e is
\* non-finite or out of domain fails with InvalidOrbitalElements: it never
\* returns a state vector.
C4_OutOfDomainNeverReturns == ~(pc = "returned" /\ OutOfDomain(elements))

\* ------------------------------------------------------------------------
\* Properties of calculateInterceptTrajectory (SpecTrajectory)
\* ------------------------------------------------------------------------

Returned == outcome = "returned"

\* C3: a call with a propulsionType outside {chemical, ion, nuclear} fails
\* and returns no trajectory, on the path through 'update-mission-config'
\* too, where no trajectory is then emitted to the client.
C3_UnknownPropulsionFails ==
    (mission # NoMission
        /\ mission.propulsionType \notin {"chemical", "ion", "nuclear"})
    => /\ outcome = "thrown"
       /\ trajectory = NoTrajectory
       /\ emitted # <<"trajectory-calculated">>

\* C5: every trajectory returned has exactly 101 points, in the order of
\* the fraction t = i/100: the time stamps grow from each point to the next.
C5_HundredAndOnePoints ==
    Returned =>
        /\ Len(trajectory.points) = 101
        /\ \A k \in 1..100 :
               StampLess(trajectory.points[k].time, trajectory.points[k + 1].time)

C5_Witness ==
    /\ Returned
    /\ mission.propulsionType = "ion"
    /\ mission.timeOfFlight = 200 * DAY_SECONDS
    /\ Len(trajectory.points) = 101
    /\ trajectory.points[1].time.s = 0
    /\ trajectory.points[101].time.s = 200 * DAY_SECONDS

\* C6: in every trajectory returned, point 0 has fuelMass equal to
\* totalFuelUsed, point 100 has fuelMass 0, and fuelMass never increases
\* from a point to the next.
C6_FuelDecreasesToZero ==
    Returned =>
        /\ FEq(trajectory.points[1].fuelMass, trajectory.totalFuelUsed)
        /\ FEq(trajectory.points[101].fuelMass, Fin(0))
        /\ \A k \in 1..100 :
               ~FGt(trajectory.points[k + 1].fuelMass, trajectory.points[k].fuelMass)

\* C7: the time stamp of point i is referenceInstant + (i/100) * flightTime
\* for one reference instant, however the clock advances during the call,
\* and two calls with identical arguments return identical time stamps.
C7_TimeStampsFromOneInstant ==
    Returned =>
        /\ \E referenceInstant \in 0 .. (MaxClock + 1) :
               \A k \in 1..101 :
                   trajectory.points[k].time =
                       StampAt(referenceInstant, k - 1, trajectory.flightTime)
        /\ previous # NoTrajectory =>
               \A k \in 1..101 :
                   previous.points[k].time = trajectory.points[k].time

\* Two values of the model agree: finite values to within d units of the
\* last decimal held, other values when they are the same.
Near(a, b, d) == IF a.c = "fin" /\ b.c = "fin" THEN Abs(a.v - b.v) <= d ELSE a = b

fV(deltaV) ==
    IF deltaV.c = "fin" /\ deltaV.v > 15000 THEN 70
    ELSE IF deltaV.c = "fin" /\ deltaV.v > 10000 THEN 85
    ELSE 100

fT(flightTime) ==
    IF flightTime > 2 * YEAR_SECONDS THEN 80
    ELSE IF flightTime > YEAR_SECONDS THEN 90
    ELSE 100

fP(propulsionType) ==
    CASE propulsionType = "chemical" -> 90
      [] propulsionType = "ion" -> 95
      [] propulsionType = "nuclear" -> 85

\* clamp(x, 0.10, 0.99) in units of 1e-8
Clamp(x) == IF x < 10000000 THEN 10000000 ELSE IF x > 99000000 THEN 99000000 ELSE x

\* C9: for every deltaV, flight time and propulsion type in {chemical, ion,
\* nuclear} the probability returned is clamp(0.85 fV fT fP, 0.10, 0.99),
\* and it lies in [0.10, 0.99].
C9_ProbabilityFormula ==
    estimate.propulsionType \in {"chemical", "ion", "nuclear"} =>
        /\ estimate.probability =
               Fin(Clamp(85 * fV(estimate.deltaV) * fT(estimate.timeOfFlight)
                            * fP(estimate.propulsionType)))
        /\ IsFinite(estimate.probability)
        /\ estimate.probability.v >= 10000000
        /\ estimate.probability.v <= 99000000

C9_Witness ==
    /\ estimate.propulsionType = "nuclear"
    /\ estimate.deltaV = Fin(15001)
    /\ estimate.timeOfFlight = 2 * YEAR_SECONDS + 1
    /\ estimate.probability = Fin(40460000)

\* C10: for a fixed propulsion type, raising deltaV with the flight time
\* fixed, or raising the flight time with deltaV fixed, never raises the
\* probability returned.
C10_ProbabilityNonIncreasing ==
    (estimateBefore # NoEstimate
        /\ estimate.propulsionType = estimateBefore.propulsionType
        /\ \/ /\ FGt(estimate.deltaV, estimateBefore.deltaV)
              /\ estimate.timeOfFlight = estimateBefore.timeOfFlight
           \/ /\ estimate.timeOfFlight > estimateBefore.timeOfFlight
              /\ estimate.deltaV = estimateBefore.deltaV)
    => ~FGt(estimate.probability, estimateBefore.probability)

C10_Witness ==
    /\ estimateBefore.propulsionType = "chemical"
    /\ estimate.propulsionType = "chemical"
    /\ estimateBefore.deltaV = Fin(10000)
    /\ estimate.deltaV = Fin(10001)
    /\ estimate.timeOfFlight = estimateBefore.timeOfFlight
    /\ FLt(estimate.probability, estimateBefore.probability)

\* ------------------------------------------------------------------------
\* Properties of getCurrentCelestialPositions and of the tables (SpecEngine)
\* ------------------------------------------------------------------------

\* C11: whatever the time asked, the map returned by
\* getCurrentCelestialPositions has exactly one entry per registered body:
\* its keys are the names of PLANETARY_ELEMENTS and '3I/ATLAS'.
C11_OneEntryPerBody ==
    caller # "none" =>
        DOMAIN currentPositions =
            {"Mercury", "Venus", "Earth", "Mars", "Jupiter"} \cup {"3I/ATLAS"}

\* a call with a time that is no number has returned its six entries
C11_Witness ==
    /\ caller # "none"
    /\ IsNaN(asked)
    /\ Cardinality(DOMAIN currentPositions) = 6
    /\ "3I/ATLAS" \in DOMAIN currentPositions

ElementRecords(tb) ==
    {tb.PLANETARY_ELEMENTS[name] : name \in DOMAIN tb.PLANETARY_ELEMENTS}
        \cup {tb.ATLAS_3I_ELEMENTS}

\* C15: every record of the registry has a < 0 exactly when e >= 1, before
\* and after every call of the engine.
C15_SignOfAMatchesE ==
    \A el \in ElementRecords(tables) :
        FLt(el.a, Fin(0)) <=> (FGt(el.e, Fin(1000)) \/ FEq(el.e, Fin(1000)))

\* a route has called the engine; the registry holds the five planets with
\* a > 0 and the hyperbolic object with a < 0
C15_Witness ==
    /\ caller = "GET /positions"
    /\ Cardinality(ElementRecords(tables)) = 6
    /\ FLt(tables.ATLAS_3I_ELEMENTS.a, Fin(0))
    /\ FGt(tables.PLANETARY_ELEMENTS["Earth"].a, Fin(0))

\* ------------------------------------------------------------------------
\* Units of the position returned by calculatePositionAtTime (SpecOrbit)
\* ------------------------------------------------------------------------

\* The magnitude of a position of the engine, in thousandths of an AU
MagnitudeInAU(position) == Magnitude(AsTrajectoryPosition(position))

\* C14: calculatePositionAtTime(Earth elements, Earth.epoch) returns a
\* position whose magnitude is between 0.98 and 1.02 AU.
C14_EarthAtEpochNearOneAU ==
    (/\ pc = "returned"
     /\ elements = PLANETARY_ELEMENTS.Earth
     /\ time = Fin(PLANETARY_ELEMENTS.Earth.epoch))
    => /\ ~FLt(MagnitudeInAU(stateVector.position), Fin(980))
       /\ ~FGt(MagnitudeInAU(stateVector.position), Fin(1020))
       /\ IsFinite(MagnitudeInAU(stateVector.position))

\* ------------------------------------------------------------------------
\* Properties of calculateDeltaV (SpecDeltaV)
\* ------------------------------------------------------------------------

MagnitudePair(call) == {Magnitude(call.r1), Magnitude(call.r2)}

NonZero(r) == FGt(Magnitude(r), Fin(0))

\* C16: calculateDeltaV depends only on the unordered pair {|r1|, |r2|}: two
\* calls whose vectors have the same two magnitudes, in either order, in
\* any direction and with any flight time, return the same value; for
\* non-zero vectors the value is 0 when |r1| = |r2| and positive otherwise.
C16_DependsOnMagnitudePair ==
    /\ (/\ deltaVCall.made
        /\ deltaVBefore.made
        /\ MagnitudePair(deltaVCall) = MagnitudePair(deltaVBefore))
       => deltaVCall.result = deltaVBefore.result
    /\ (/\ deltaVCall.made
        /\ NonZero(deltaVCall.r1)
        /\ NonZero(deltaVCall.r2))
       => IF Magnitude(deltaVCall.r1) = Magnitude(deltaVCall.r2)
          THEN deltaVCall.result = Fin(0)
          ELSE FGt(deltaVCall.result, Fin(0))

\* a call, and before it the call with the two vectors swapped, turned and
\* another flight time, both returning the same positive value
C16_Witness ==
    /\ deltaVCall.made
    /\ deltaVBefore.made
    /\ Magnitude(deltaVCall.r1) = Magnitude(deltaVBefore.r2)
    /\ Magnitude(deltaVCall.r2) = Magnitude(deltaVBefore.r1)
    /\ deltaVCall.r1 # deltaVBefore.r2
    /\ deltaVCall.timeOfFlight # deltaVBefore.timeOfFlight
    /\ FLt(Magnitude(deltaVCall.r1), Magnitude(deltaVCall.r2))
    /\ FGt(deltaVCall.result, Fin(0))
    /\ deltaVCall.result = deltaVBefore.result

\* ------------------------------------------------------------------------
\* Merge of live and calculated positions (SpecCelestial)
\* ------------------------------------------------------------------------

\* What the live fetch, or its unexpired cache entry, supplies in the last
\* request for a body; null when it supplies nothing.  GET /bodies asks for
\* the planets only.
LiveSupplied(name) ==
    IF name = "3I/ATLAS"
    THEN IF request.route = "GET /positions"
         THEN fetchAtlasLivePosition(request.atlasCache, request.at,
                                     request.time, request.reply)
         ELSE null
    ELSE fetchPlanetaryPosition(request.planetaryCache, request.at, name,
                                request.time, request.reply)

\* What the engine calculated for the time of the last request
EngineCalculated == calculated[request.time]

\* The position the response carries for a body
Carried(name) ==
    IF request.route = "GET /bodies" THEN response.data[name].position
    ELSE response.data[name]

\* The position the merge policy gives a body: the live one when there is
\* one, otherwise the calculated one (null when the engine has none)
LiveElseCalculated(name) ==
    IF LiveSupplied(name) # null THEN LiveSupplied(name)
    ELSE IF name \in DOMAIN EngineCalculated THEN EngineCalculated[name]
    ELSE null

NasaLiveExactlyForLive ==
    request.route = "GET /bodies" =>
        \A name \in DOMAIN response.data :
            response.data[name].dataSource = "nasa_live"
                <=> (/\ LiveSupplied(name) # null
                     /\ response.data[name].position = LiveSupplied(name))

CalculatedBodiesPresent ==
    request.route = "GET /positions" =>
        DOMAIN EngineCalculated \subseteq DOMAIN response.data

\* C13 as stated: in both responses every body carries the live position
\* when there is one and the engine-calculated position otherwise
C13_LiveElseEngineCalculated ==
    request.route # "none" =>
        /\ \A name \in DOMAIN response.data : Carried(name) = LiveElseCalculated(name)
        /\ CalculatedBodiesPresent
        /\ NasaLiveExactlyForLive

\* C13: in the responses of GET /positions and GET /bodies every body
\* carries the live position when the fetch or its unexpired cache entry
\* supplies one, otherwise the engine-calculated position, and the static
\* position of the body when the engine calculates none for it (the Sun in
\* GET /bodies); every body the engine calculated is in the response of
\* GET /positions, and GET /bodies reports 'nasa_live' exactly for the
\* bodies whose position is the live one.
C13_LiveElseCalculatedElseStatic ==
    request.route # "none" =>
        /\ \A name \in DOMAIN response.data :
               Carried(name) = IF LiveElseCalculated(name) # null
                               THEN LiveElseCalculated(name)
                               ELSE CELESTIAL_BODIES[name]
        /\ CalculatedBodiesPresent
        /\ NasaLiveExactlyForLive

\* GET /positions answered while Horizons was down: Earth comes from the
\* cache entry of an earlier request, Mars from the engine, and Saturn, which
\* the engine does not calculate, from the cache
C13_Witness ==
    /\ request.route = "GET /positions"
    /\ \A name \in DOMAIN request.reply : request.reply[name] = null
    /\ Carried("Earth") = HorizonsRow("Earth")
    /\ Carried("Mars") = EngineCalculated["Mars"]
    /\ Carried("Mars") # HorizonsRow("Mars")
    /\ "Saturn" \in DOMAIN response.data
    /\ "Saturn" \notin DOMAIN EngineCalculated
    /\ Carried("3I/ATLAS") = EngineCalculated["3I/ATLAS"]

\* ------------------------------------------------------------------------
\* Properties of routes/simulation.ts (SpecSimulation)
\* ------------------------------------------------------------------------

\* C18: besides POST /start the API offers POST /pause and GET /:id: a
\* request to pause a started simulation succeeds and leaves it not
\* running (so that no tick follows), and a request for its state by id
\* succeeds.
C18_PauseAndReadOffered ==
    (/\ answer.route \in {"POST /pause", "GET /:id"}
     /\ answer.id \in DOMAIN simulations)
    => /\ answer.status = 200
       /\ answer.route = "POST /pause" => ~simulations[answer.id].isRunning

\* C19: the registry never holds more than MAX_CONCURRENT_SIMULATIONS
\* simulations, and a start request answered 429 or 400 adds no simulation
\* and creates no timer.
C19_RegistryWithinLimit ==
    /\ [](Cardinality(DOMAIN simulations) <= MAX_CONCURRENT_SIMULATIONS)
    /\ [][answer'.status \in {400, 429}
            => /\ simulations' = simulations
               /\ simulationIntervals' = simulationIntervals]_vars

\* the registry is full, every simulation has its timer, and a start
\* request has been answered 429
C19_Witness ==
    /\ answer.route = "POST /start"
    /\ answer.status = 429
    /\ Cardinality(DOMAIN simulations) = MAX_CONCURRENT_SIMULATIONS
    /\ simulationIntervals = DOMAIN simulations

\* C20: a simulation that has stopped releases its slot: a start request is
\* answered 429 only while every simulation of the registry is running.
C20_StoppedReleasesSlot ==
    (answer.route = "POST /start" /\ answer.status = 429)
    => \A id \in DOMAIN simulations : simulations[id].isRunning


\* C17: for every eccentricity e of [0, 0.99] and every mean anomaly M of
\* [-2 pi, 2 pi], solveKeplerEquation(M, e) returns (its loop is not still
\* running after MaxNewton passes), and the E it returns has a Kepler residual
\* |E - e sin E - M| below 1e-6.
C17_ResidualBelowMicro ==
    /\ newton.pc = "returned"
           => LGt(<<0, 0, 100, 0, 0>>,
                  LAbs(KeplerResidual(newton.E, newton.M, newton.e)))
    /\ ~(newton.pc = "solving" /\ SolverLoopCondition /\ newton.iterations >= MaxNewton)

\* A call with e = 0.99 has returned after ten passes or more, away from M.
C17_Witness ==
    /\ newton.pc = "returned"
    /\ newton.e = <<0, 9900, 0, 0, 0>>
    /\ newton.iterations >= 10
    /\ LGt(LAbs(LSub(newton.E, newton.M)), <<0, 5000, 0, 0, 0>>)


\* C21: for every simulation id, a tick timer is registered in
\* simulationIntervals if and only if the simulation is in the registry with
\* isRunning = true; once a simulation is auto-stopped its timer is cleared
\* and no step changes it or emits a simulation-tick with its id any more.
C21_TimerIffRunning ==
    /\ [](\A id \in 1..MAX_CONCURRENT_SIMULATIONS + 1 :
              id \in simulationIntervals
                  <=> (id \in DOMAIN simulations /\ simulations[id].isRunning))
    /\ [][\A id \in DOMAIN simulations :
              ~simulations[id].isRunning
                  => /\ simulations'[id] = simulations[id]
                     /\ id \notin simulationIntervals'
                     /\ (id \in DOMAIN ticked' <=> id \in DOMAIN ticked)
                     /\ (id \in DOMAIN ticked => ticked'[id] = ticked[id])]_vars

\* A simulation has been auto-stopped past a year of seconds while another
\* one is still running on its timer.
C21_Witness ==
    /\ \E id \in DOMAIN simulations :
           /\ ~simulations[id].isRunning
           /\ simulations[id].elapsedTime > AutoStopAfter
           /\ id \notin simulationIntervals
           /\ id \in DOMAIN ticked
    /\ \E id \in DOMAIN simulations :
           /\ simulations[id].isRunning
           /\ simulations[id].elapsedTime >= 1
           /\ id \in simulationIntervals


\* The active timers of socket s that fire every `seconds` seconds
TimersOf(s, seconds) ==
    {h \in DOMAIN timers : timers[h].socket = s /\ timers[h].seconds = seconds}

\* C22: a socket has at most one active 1-second position timer however
\* often it subscribes, the timer is active exactly when the socket is in its
\* subscriber set, and no position_update is emitted to a socket that has
\* unsubscribed and not subscribed again.
C22_OnePositionTimerIffSubscribed ==
    /\ \A s \in Sockets :
           /\ Cardinality(TimersOf(s, 1)) <= 1
           /\ TimersOf(s, 1) # {} <=> s \in positionSubscribers[s]
           /\ TimersOf(s, 1) # {} <=> positionUpdateInterval[s] # NoHandle
    /\ \A k \in DOMAIN handled.emits :
           handled.emits[k] = "position_update"
               => handled.socket \in positionSubscribers[handled.socket]

\* One socket has just unsubscribed and holds no 1-second timer any more,
\* while the other one is subscribed and has its timer.
C22_Witness ==
    /\ handled.by = "unsubscribe_position_updates"
    /\ connection[handled.socket] = "connected"
    /\ TimersOf(handled.socket, 1) = {}
    /\ TimersOf(handled.socket, 2) # {}
    /\ \E s \in Sockets \ {handled.socket} :
           s \in positionSubscribers[s] /\ Cardinality(TimersOf(s, 1)) = 1

\* C23: after a socket disconnects no periodic timer created on its behalf
\* remains active, neither the one of subscribe_position_updates nor any of
\* subscribe-positions, and no position computation runs for it.
C23_NoTimerAfterDisconnect ==
    \A s \in Sockets :
        connection[s] = "disconnected"
            => /\ TimersOf(s, 1) = {}
               /\ TimersOf(s, 2) = {}
               /\ ~(handled.by = "timer" /\ handled.socket = s /\ handled.computed)

\* C24: a socket that sends subscribe-positions several times while connected
\* has at most one active 2-second update timer.
C24_OneUpdateTimer ==
    \A s \in Sockets : Cardinality(TimersOf(s, 2)) <= 1


\* C25: every update-mission-config event is answered with exactly one of
\* 'trajectory-calculated' and 'mission-alert', and a failure (a missing
\* config, an invalid launch window, an unknown propulsion type) is answered
\* with the alert.
C25_FailureAnsweredWithAlert ==
    emitted # <<>>
        => /\ emitted \in {<<"trajectory-calculated">>, <<"mission-alert">>}
           /\ (\/ outcome = "unreached"
               \/ mission.propulsionType \notin {"chemical", "ion", "nuclear"}
               \/ \E k \in 1..3 : IsNaN(mission.startPosition[k]))
                  => emitted = <<"mission-alert">>


\* C27: POST /api/mission/calculate adds the warning 'Low intercept
\* probability - consider adjusting mission parameters' only when the
\* trajectory's interceptProbability is below 0.5; a calculation whose
\* probability is 0.5 or more returns no such warning.
C27_LowProbabilityWarningBelowHalf ==
    \A k \in DOMAIN calculation.warnings :
        calculation.warnings[k] = "Low intercept probability - consider adjusting mission parameters"
            => FLt(calculation.interceptProbability, Fin(50000000))


\* C26: within the cache duration, requests for the same planet and the same
\* five-minute time bucket cause at most one successful fetch from JPL
\* Horizons, also when the requests overlap; and a cached position is
\* returned only if it was stored less than five minutes ago.
C26_OneFetchPerCachePeriod ==
    /\ settled.how = "live"
           => settled.stored = NoEntry \/ settled.at - settled.stored >= CACHE_DURATION
    /\ settled.how = "cached" => settled.at - settled.stored < CACHE_DURATION


\* C28: for every registered body, the hyperbolic 3I/ATLAS included, and
\* every instant, calculatePositionAtTime returns position and velocity
\* components that are all finite (no square root of a negative number, no
\* division by zero).
C28_StateVectorFinite ==
    (pc = "returned" /\ elements \in Registry /\ IsFinite(time))
        => \A k \in 1..3 :
               /\ IsFinite(stateVector.position[k])
               /\ IsFinite(stateVector.velocity[k])

====
